---- MODULE Spec2Model ----
(***************************************************************************)
(* Translation memory and segment-reuse engine of translationmdexe:        *)
(* TranslationDatabaseManager (translation_database.py) and the two        *)
(* TranslationManager classes that drive it (translation_manager.py and    *)
(* gui_app.py).  Texts are sequences of one-character strings.             *)
(***************************************************************************)
EXTENDS Integers, Sequences, FiniteSets, TLC

\* ------------------------------------------------------------------ text
\* str.isspace / str.isupper / str.isalnum on the characters the model uses.
IsSpace(c) == c \in {" ", "\n", "\t"}

IsUpper(c) == c \in {"A", "C", "H", "J", "N", "T"}

IsAlnum(c) ==
  c \in {"A", "C", "H", "J", "N", "T",
         "a", "b", "d", "e", "h", "i", "l", "n", "o", "r", "s", "t", "w"}

RECURSIVE LStrip(_)
LStrip(s) == IF s # <<>> /\ IsSpace(Head(s)) THEN LStrip(Tail(s)) ELSE s

RECURSIVE RStrip(_)
RStrip(s) ==
  IF s # <<>> /\ IsSpace(s[Len(s)]) THEN RStrip(SubSeq(s, 1, Len(s) - 1)) ELSE s

\* str.strip()
Strip(s) == RStrip(LStrip(s))

RECURSIVE Rep(_, _)
Rep(c, n) == IF n = 0 THEN <<>> ELSE <<c>> \o Rep(c, n - 1)

Max(S) == CHOOSE x \in S : \A y \in S : y <= x

Min(S) == CHOOSE x \in S : \A y \in S : x <= y

\* hashlib.md5(...).hexdigest(): a digest that determines its input.
Md5(x) == <<"md5", x>>

\* ------------------------------------------------- difflib.SequenceMatcher
\* Length of the common run a[i..], b[j..] inside a[..ahi-1], b[..bhi-1].
RECURSIVE RunLen(_, _, _, _, _, _)
RunLen(a, b, i, j, ahi, bhi) ==
  IF i < ahi /\ j < bhi /\ a[i] = b[j]
  THEN 1 + RunLen(a, b, i + 1, j + 1, ahi, bhi)
  ELSE 0

\* Every block <<size, i, j>> of a[alo..ahi-1] and b[blo..bhi-1]: the common
\* run that starts at a[i] and b[j].
Blocks(a, b, alo, ahi, blo, bhi) ==
  {<<RunLen(a, b, i, j, ahi, bhi), i, j>> : i \in alo .. ahi - 1, j \in blo .. bhi - 1}

\* The <<i, j, size>> find_longest_match returns among the blocks: the
\* longest, of those the one starting earliest in a, of those earliest in b.
Longest(blocks, alo, blo) ==
  IF \A t \in blocks : t[1] = 0
  THEN <<alo, blo, 0>>
  ELSE LET t == CHOOSE t \in blocks : \A u \in blocks :
                  \/ u[1] < t[1]
                  \/ u[1] = t[1] /\ t[2] < u[2]
                  \/ u[1] = t[1] /\ t[2] = u[2] /\ t[3] <= u[3]
       IN  <<t[2], t[3], t[1]>>

\* find_longest_match(alo, ahi, blo, bhi) with no junk (isjunk is None and
\* autojunk only acts on sequences of 200 or more elements).  Positions are
\* 1-based, hi bounds exclusive.
FindLongestMatch(a, b, alo, ahi, blo, bhi) ==
  Longest(Blocks(a, b, alo, ahi, blo, bhi), alo, blo)

\* Sum of the sizes of get_matching_blocks() over a[alo..ahi-1], b[blo..bhi-1]:
\* the longest block m, then the blocks to its left and to its right.
RECURSIVE MatchingSize(_, _, _, _, _, _)
RECURSIVE AroundBlock(_, _, _, _, _, _, _)
AroundBlock(a, b, alo, ahi, blo, bhi, m) ==
  IF m[3] = 0
  THEN 0
  ELSE m[3]
       + (IF alo < m[1] /\ blo < m[2]
          THEN MatchingSize(a, b, alo, m[1], blo, m[2]) ELSE 0)
       + (IF m[1] + m[3] < ahi /\ m[2] + m[3] < bhi
          THEN MatchingSize(a, b, m[1] + m[3], ahi, m[2] + m[3], bhi) ELSE 0)

MatchingSize(a, b, alo, ahi, blo, bhi) ==
  AroundBlock(a, b, alo, ahi, blo, bhi, FindLongestMatch(a, b, alo, ahi, blo, bhi))

\* A ratio of the matches to the total length, without the factor 2.
RatioUnscaled(a, b) ==
  IF Len(a) + Len(b) = 0
  THEN <<1, 1>>
  ELSE <<MatchingSize(a, b, 1, Len(a) + 1, 1, Len(b) + 1), Len(a) + Len(b)>>

\* SequenceMatcher(None, a, b).ratio() = 2.0 * matches / (len(a) + len(b)),
\* 1.0 when both are empty, kept as the exact fraction <<num, den>>.
Ratio(a, b) ==
  IF Len(a) + Len(b) = 0
  THEN <<1, 1>>
  ELSE <<2 * MatchingSize(a, b, 1, Len(a) + 1, 1, Len(b) + 1), Len(a) + Len(b)>>

\* r >= n/d and r > n/d for a ratio r and the literal n/d (0.9 = 9/10,
\* 0.95 = 19/20): the float quotient is correctly rounded, so for lengths
\* this small it compares with the literal as the exact fractions do.
RatioGE(r, n, d) == r[1] * d >= n * r[2]

RatioGT(r, n, d) == r[1] * d > n * r[2]

\* ------------------------------------------------------------- segmenter
\* Length of the run of whitespace of s starting at position p.
RECURSIVE SpaceRun(_, _)
SpaceRun(s, p) == IF p <= Len(s) /\ IsSpace(s[p]) THEN 1 + SpaceRun(s, p + 1) ELSE 0

\* A separator that knows the first alternative only: whitespace after
\* '.', '!' or '?' and before an uppercase letter.
SeparatorAtPunctuation(s, p, mustAdvance) ==
  LET w == SpaceRun(s, p)
  IN  IF /\ p > 1 /\ s[p - 1] \in {".", "!", "?"} /\ w >= 1
         /\ p + w <= Len(s) /\ IsUpper(s[p + w])
      THEN w
      ELSE -1

\* The separator (?<=[.!?])\s+(?=[A-Z])|(?<=\n)\s*(?=[A-Z]) tried at position
\* p: the length it consumes there, or -1 when it does not match.  An empty
\* match at the position the previous empty match ended is refused.
SeparatorAt(s, p, mustAdvance) ==
  LET w     == SpaceRun(s, p)
      ahead == p + w <= Len(s) /\ IsUpper(s[p + w])
  IN  IF p > 1 /\ s[p - 1] \in {".", "!", "?"} /\ w >= 1 /\ ahead THEN w
      ELSE IF p > 1 /\ s[p - 1] = "\n" /\ ahead /\ ~(mustAdvance /\ w = 0) THEN w
      ELSE -1

\* re.split(separators, content) from position pos on, the last piece
\* starting at from.
RECURSIVE ReSplit(_, _, _, _)
ReSplit(s, from, pos, mustAdvance) ==
  LET hits == {p \in pos .. Len(s) :
                 SeparatorAt(s, p, mustAdvance /\ p = pos) >= 0}
  IN  IF hits = {}
      THEN <<SubSeq(s, from, Len(s))>>
      ELSE LET p == Min(hits)
               w == SeparatorAt(s, p, mustAdvance /\ p = pos)
           IN  <<SubSeq(s, from, p - 1)>> \o ReSplit(s, p + w, p + w, w = 0)

RECURSIVE StripAndDrop(_)
StripAndDrop(pieces) ==
  IF pieces = <<>> THEN <<>>
  ELSE (IF Strip(Head(pieces)) # <<>> THEN <<Strip(Head(pieces))>> ELSE <<>>)
       \o StripAndDrop(Tail(pieces))

\* split_into_segments(content)
SplitIntoSegments(content) == StripAndDrop(ReSplit(content, 1, 1, FALSE))

\* ------------------------------------------------------ translation output
\* What generate() and decode() give for a text (the pretrained model is
\* outside the repository): the text tagged with the language pair, with
\* the loose spacing _clean_translation exists to remove.
ModelDecode(text, lang_pair) == <<lang_pair, " ", " ">> \o text \o <<" ">>

\* re.sub(r'\s+', ' ', text)
RECURSIVE CollapseSpaces(_)
CollapseSpaces(s) ==
  IF s = <<>> THEN <<>>
  ELSE IF IsSpace(Head(s))
       THEN <<" ">> \o CollapseSpaces(SubSeq(s, 1 + SpaceRun(s, 1), Len(s)))
       ELSE <<Head(s)>> \o CollapseSpaces(Tail(s))

\* re.sub(r'\s+([.,!?])', r'\1', text)
RECURSIVE TightenPunctuation(_)
TightenPunctuation(s) ==
  IF s = <<>> THEN <<>>
  ELSE LET w == SpaceRun(s, 1)
       IN  IF w >= 1 /\ w < Len(s) /\ s[w + 1] \in {".", ",", "!", "?"}
           THEN <<s[w + 1]>> \o TightenPunctuation(SubSeq(s, w + 2, Len(s)))
           ELSE <<Head(s)>> \o TightenPunctuation(Tail(s))

\* re.sub(r"^(I'm sorry|I apologize|Translation:|Translated text:)\s*", "", text),
\* a boilerplate phrase being one element of the text.
DropLeadingBoilerplate(s) ==
  IF s # <<>> /\ Head(s) \in {"I'm sorry", "I apologize", "Translation:", "Translated text:"}
  THEN SubSeq(s, 2 + SpaceRun(s, 2), Len(s))
  ELSE s

\* translation_manager.TranslationManager._clean_translation
CleanTranslation(text) ==
  Strip(TightenPunctuation(CollapseSpaces(DropLeadingBoilerplate(text))))

\* '\n'.join(parts)
RECURSIVE JoinLines(_)
JoinLines(parts) ==
  IF parts = <<>> THEN <<>>
  ELSE IF Len(parts) = 1 THEN parts[1]
  ELSE parts[1] \o <<"\n">> \o JoinLines(Tail(parts))

\* The pairs taken from the last to the first.
ZipBackwards(xs, ys) ==
  [i \in 1 .. Len(xs) |-> <<xs[Len(xs) + 1 - i], ys[Len(xs) + 1 - i]>>]

\* list(zip(xs, ys)) for two lists of one length
\* No pairs for the final store_translation: the segments count as stored
\* already by the calls that translated them.
ZipNothing(xs, ys) == <<>>

Zip(xs, ys) == [i \in 1 .. Len(xs) |-> <<xs[i], ys[i]>>]

\* ------------------------------------------------------------ the inputs
\* None, and the NULL it is stored as.
NULL == 0

\* supported_pairs
SupportedPairs == {"fr-en", "en-fr", "en-es", "es-en"}

Ab == <<"A", "b", ".">>

Cd == <<"C", "d", ".">>

Bang == <<"!", "!">>

\* Three long texts: Long20H and Long20J share 19 of 20 characters (ratio
\* 38/40 = 0.95), Long20H and Long21H share 20 (ratio 40/41), Long20J and
\* Long21H share 19 (ratio 38/41).
Long20H == <<"H">> \o Rep("a", 19)

Long20J == <<"J">> \o Rep("a", 19)

Long21H == <<"H">> \o Rep("a", 20)

\* Texts passed to translate(): empty, blank, symbols only, and sentences.
AdhocTexts == {<<>>, <<" ">>, Bang, Ab, Long20H, Long20J, Long21H}

\* Document contents: two sentences, and symbols before a sentence.
Contents == {Ab \o <<" ">> \o Cd, Bang \o <<" ">> \o Ab}

Paths == {"a.md"}

\* The bytes open(file_path, 'rb').read() gives; NoFile when it raises.
NoFile == "<unreadable>"

FileBytes == {"bytes1", "bytes2"}

\* Every text that can be the source of a segment.
SourceTexts ==
  AdhocTexts \cup UNION {{SplitIntoSegments(c)[i] : i \in 1 .. Len(SplitIntoSegments(c))} : c \in Contents}

\* SequenceMatcher(None, a, b).ratio() for the texts of the model, worked
\* out once: the triples <<a, b, ratio>>.
RatioTable == {<<a, b, Ratio(a, b)>> : a \in SourceTexts, b \in SourceTexts}

Similarity(a, b) == (CHOOSE t \in RatioTable : t[1] = a /\ t[2] = b)[3]

\* --------------------------------------------------------------- bounds
\* Rows the callers of the store add to translations and to segments.
MaxTranslations == 3

MaxSegments == 3

\* Segments translate() stores before ad-hoc calls stop.
MaxAdhocSegments == 3

\* Rows of translations and of segments up to which translate_document runs.
MaxDocTranslations == 3

MaxDocSegments == 4

MaxClock == 1

\* Length of the contents that are split into segments.
MaxContentLen == 4

\* Length of the texts whose similarity is computed for every pair.
MaxTextLen == 3

\* Rows segments may hold beyond the SegmentLimit rows of one large store.
MaxOverLimit == 1

\* Translations stored pair by pair when the segment store is driven directly.
MaxPairStores == 2

\* Days by which extend_license may move an expiration past the first one.
MaxExtension == 2

\* LIMIT 100 of find_matching_segments
SegmentLimit == 100

\* LIMIT 50 of find_similar_documents
DocumentLimit == 50

\* timedelta(days=90) of initialize_credentials, in ticks of the clock
LicenseDays == 90

VARIABLES
  documents,     \* rows of table documents, in rowid order
  translations,  \* rows of table translations, in rowid order
  segments,      \* rows of table segments, in rowid order
  clock,         \* datetime.now()
  build,         \* what SQLite leaves unspecified, fixed by the build in use
  pc,            \* "idle", or where a translate_document call stands
  td,            \* the frame of the translate_document call under way
  last,          \* the last completed call: its arguments and its outcome
  conns,         \* the connections open on the database file, one per manager
  valid_auth_codes,  \* MachineLock.valid_auth_codes, a list
  lock_file,     \* the machine lock file: the machine it was written for, or none
  credentials,   \* the credential file: user name -> password, expiration, licence
  models,        \* the keys of TranslationManager.models
  tokenizers     \* the keys of TranslationManager.tokenizers

\* The state behind the licence checks, and the model caches.
licence == <<valid_auth_codes, lock_file, credentials>>

caches == <<models, tokenizers>>

vars == <<documents, translations, segments, clock, build, pc, td, last, conns,
          valid_auth_codes, lock_file, credentials, models, tokenizers>>

\* ------------------------------------------------------------ the store
\* A lookup that only considers documents whose status is 'completed'.
MatchingDocumentsCompleted(file_hash, content_hash) ==
  {i \in 1 .. Len(documents) :
     /\ documents[i].status = "completed"
     /\ documents[i].content_hash = content_hash \/ documents[i].file_hash = file_hash}

\* A lookup with AND in the place of OR.
MatchingDocumentsBoth(file_hash, content_hash) ==
  {i \in 1 .. Len(documents) :
     documents[i].content_hash = content_hash /\ documents[i].file_hash = file_hash}

\* Rows of documents the SELECT of store_document matches.
MatchingDocuments(file_hash, content_hash) ==
  {i \in 1 .. Len(documents) :
     documents[i].content_hash = content_hash \/ documents[i].file_hash = file_hash}

\* cursor.fetchone() of that SELECT, which has no ORDER BY: with the
\* multi-index OR plan the row found through idx_content_hash comes first,
\* with a table scan the row of lowest rowid.
ExistingDocument(file_hash, content_hash) ==
  LET byContent == {i \in 1 .. Len(documents) : documents[i].content_hash = content_hash}
  IN  IF build.plan = "index_or" /\ byContent # {}
      THEN Min(byContent)
      ELSE Min(MatchingDocuments(file_hash, content_hash))

\* A registration that goes on without the file: a path that cannot be read
\* is registered under the hash of its content alone.
StoreDocumentResultWithoutFile(file_path, bytes, content, dbOk) ==
  IF ~dbOk
  THEN [raised |-> TRUE, id |-> NULL, existed |-> FALSE, documents |-> documents]
  ELSE [raised |-> FALSE, id |-> Len(documents) + 1, existed |-> FALSE,
        documents |-> Append(documents,
          [id |-> Len(documents) + 1, file_hash |-> Md5(bytes),
           content_hash |-> Md5(content), original_path |-> file_path,
           upload_date |-> clock, status |-> "pending"])]

\* store_document(file_path, content, file_type): what it returns or that
\* it raised, and the table it leaves.  bytes is what reading file_path
\* gives, dbOk whether SQLite executes the statements.
StoreDocumentResult(file_path, bytes, content, dbOk) ==
  IF bytes = NoFile \/ ~dbOk
  THEN [raised |-> TRUE, id |-> NULL, existed |-> FALSE, documents |-> documents]
  ELSE LET file_hash    == Md5(bytes)
           content_hash == Md5(content)
       IN  IF MatchingDocuments(file_hash, content_hash) # {}
           THEN [raised |-> FALSE,
                 id |-> documents[ExistingDocument(file_hash, content_hash)].id,
                 existed |-> TRUE, documents |-> documents]
           ELSE [raised |-> FALSE, id |-> Len(documents) + 1, existed |-> FALSE,
                 documents |-> Append(documents,
                   [id |-> Len(documents) + 1, file_hash |-> file_hash,
                    content_hash |-> content_hash, original_path |-> file_path,
                    upload_date |-> clock, status |-> "pending"])]

\* The subselect without its WHERE clause: one counter for the whole table.
NextVersionAllRows(table, document_id) ==
  LET vs == {table[i].version : i \in 1 .. Len(table)}
  IN  (IF vs = {} THEN 0 ELSE Max(vs)) + 1

\* The subselect without its "+ 1".
NextVersionNoIncrement(table, document_id) ==
  LET vs == {table[i].version :
               i \in {k \in 1 .. Len(table) :
                        document_id # NULL /\ table[k].document_id = document_id}}
  IN  IF vs = {} THEN 0 ELSE Max(vs)

\* The subselect with WHERE document_id IS ?, under which the rows without
\* a document count as the rows of one document.
NextVersionNullMatches(table, document_id) ==
  LET vs == {table[i].version :
               i \in {k \in 1 .. Len(table) : table[k].document_id = document_id}}
  IN  (IF vs = {} THEN 0 ELSE Max(vs)) + 1

\* (SELECT COALESCE(MAX(version), 0) + 1 FROM translations WHERE document_id = ?):
\* no row satisfies document_id = NULL.
NextVersion(table, document_id) ==
  LET vs == {table[i].version :
               i \in {k \in 1 .. Len(table) :
                        document_id # NULL /\ table[k].document_id = document_id}}
  IN  (IF vs = {} THEN 0 ELSE Max(vs)) + 1

\* A counter taken over all rows: MAX(usage_count) without the WHERE clause.
NextUsageCountAllRows(table, hash) ==
  LET us == {table[i].usage_count : i \in 1 .. Len(table)}
  IN  (IF us = {} THEN 0 ELSE Max(us)) + 1

\* (SELECT COALESCE(MAX(usage_count), 0) + 1 FROM segments WHERE hash = ?)
NextUsageCount(table, hash) ==
  LET us == {table[i].usage_count : i \in {k \in 1 .. Len(table) : table[k].hash = hash}}
  IN  (IF us = {} THEN 0 ELSE Max(us)) + 1

\* The loop of store_translation over its (source, translated) pairs: one
\* INSERT for one pair, and for more pairs the loop over the first half of
\* them followed by the loop over the rest, which sees the rows of the first
\* half already in the table.
\* An insertion that keeps one row per text: when the table has rows with
\* the hash of a pair's source text it counts the use on them and stamps
\* them, and adds a row only for a text that is new.
RECURSIVE InsertSegmentsUpsert(_, _, _, _)
InsertSegmentsUpsert(table, pairs, lang_pair, document_id) ==
  IF pairs = <<>>
  THEN table
  ELSE LET hash == Md5(pairs[1][1])
           next == IF \E k \in 1 .. Len(table) : table[k].hash = hash
                   THEN [k \in 1 .. Len(table) |->
                           IF table[k].hash = hash
                           THEN [table[k] EXCEPT !.usage_count = @ + 1,
                                                 !.last_used = clock]
                           ELSE table[k]]
                   ELSE Append(table,
                               [id |-> Len(table) + 1, source_text |-> pairs[1][1],
                                translated_text |-> pairs[1][2],
                                lang_pair |-> lang_pair, hash |-> hash,
                                usage_count |-> 1, last_used |-> clock,
                                document_id |-> document_id])
       IN  InsertSegmentsUpsert(next, Tail(pairs), lang_pair, document_id)

RECURSIVE InsertSegments(_, _, _, _)
InsertSegments(table, pairs, lang_pair, document_id) ==
  IF pairs = <<>>
  THEN table
  ELSE IF Len(pairs) = 1
  THEN Append(table,
              [id |-> Len(table) + 1, source_text |-> pairs[1][1],
               translated_text |-> pairs[1][2], lang_pair |-> lang_pair,
               hash |-> Md5(pairs[1][1]),
               usage_count |-> NextUsageCount(table, Md5(pairs[1][1])),
               last_used |-> clock, document_id |-> document_id])
  ELSE LET half == InsertSegments(table, SubSeq(pairs, 1, Len(pairs) \div 2),
                                   lang_pair, document_id)
       IN  IF Len(half) = Len(table)
           THEN half
           ELSE InsertSegments(half, SubSeq(pairs, Len(pairs) \div 2 + 1, Len(pairs)),
                               lang_pair, document_id)

\* store_translation(document_id, lang_pair, translated_content, segments):
\* one transaction, committed as a whole or rolled back when a statement
\* fails (dbOk false), the error raised again.  No PRAGMA foreign_keys is
\* issued, so document_id is not checked against documents.
StoreTranslationResult(document_id, lang_pair, translated_content, pairs, dbOk) ==
  IF ~dbOk
  THEN [raised |-> TRUE, id |-> NULL, translations |-> translations, segments |-> segments]
  ELSE [raised |-> FALSE, id |-> Len(translations) + 1,
        translations |-> Append(translations,
          [id |-> Len(translations) + 1, document_id |-> document_id,
           lang_pair |-> lang_pair, translated_content |-> translated_content,
           translation_date |-> clock,
           version |-> NextVersion(translations, document_id)]),
        segments |-> InsertSegments(segments, pairs, lang_pair, document_id)]

\* The tables as the connection sees them inside store_translation once the
\* translation row and the first n segment rows are inserted, before commit.
Uncommitted(document_id, lang_pair, translated_content, pairs, n) ==
  [translations |-> Append(translations,
     [id |-> Len(translations) + 1, document_id |-> document_id,
      lang_pair |-> lang_pair, translated_content |-> translated_content,
      translation_date |-> clock,
      version |-> NextVersion(translations, document_id)]),
   segments |-> InsertSegments(segments, SubSeq(pairs, 1, n), lang_pair, document_id)]

\* A handler without rollback: what was inserted stays in the transaction.
RollbackNothing(work) == work

\* self.conn.rollback() in the handler of store_translation: the tables are
\* again what the last commit left.
Rollback(work) == [translations |-> translations, segments |-> segments]

\* store_translation when its statement number failAt raises: statement 0 is
\* the INSERT into translations, statement k the INSERT of the k-th segment,
\* statement Len(pairs) + 1 the commit.  The handler rolls back and raises.
StoreTranslationInterrupted(document_id, lang_pair, translated_content, pairs, failAt) ==
  LET left == Rollback(IF failAt = 0
                       THEN [translations |-> translations, segments |-> segments]
                       ELSE Uncommitted(document_id, lang_pair, translated_content,
                                        pairs, Min({failAt - 1, Len(pairs)})))
  IN  [raised |-> TRUE, id |-> NULL,
       translations |-> left.translations, segments |-> left.segments]

\* Rows of segments of a language pair ORDER BY last_used DESC; rows of equal
\* last_used come in rowid order, ascending or descending by the build.  A
\* row's place is one more than the number of rows that come before it.
OrderByLastUsedDesc(S) ==
  LET Before(j, i) ==
        \/ segments[j].last_used > segments[i].last_used
        \/ /\ segments[j].last_used = segments[i].last_used
           /\ IF build.ties = "asc" THEN j < i ELSE j > i
      placed == {<<i, 1 + Cardinality({j \in S : Before(j, i)})>> : i \in S}
  IN  [p \in 1 .. Cardinality(S) |-> (CHOOSE t \in placed : t[2] = p)[1]]

\* sorted(matches, key=similarity, reverse=True): stable, so matches of
\* equal similarity keep the order they were found in.
SortBySimilarityDesc(ms) ==
  LET Before(j, i) ==
        \/ ms[j].similarity[1] * ms[i].similarity[2]
             > ms[i].similarity[1] * ms[j].similarity[2]
        \/ /\ ms[j].similarity[1] * ms[i].similarity[2]
                = ms[i].similarity[1] * ms[j].similarity[2]
           /\ j < i
      placed == {<<i, 1 + Cardinality({j \in 1 .. Len(ms) : Before(j, i)})>> :
                   i \in 1 .. Len(ms)}
  IN  [p \in 1 .. Len(ms) |-> ms[(CHOOSE t \in placed : t[2] = p)[1]]]

\* A query without LIMIT: every row of the language pair is considered.
LimitNone(rows) == rows

\* LIMIT 100
Limit(rows) == SubSeq(rows, 1, Min({Len(rows), SegmentLimit}))

\* The dictionaries find_matching_segments builds for the rows it fetched.
Scored(segment, rows) ==
  [k \in 1 .. Len(rows) |->
     [rowid |-> rows[k], source |-> segments[rows[k]].source_text,
      translated |-> segments[rows[k]].translated_text,
      similarity |-> Similarity(segment, segments[rows[k]].source_text)]]

\* find_matching_segments(segment, lang_pair) with the default threshold 0.9
FindMatchingSegments(segment, lang_pair) ==
  SortBySimilarityDesc(
    SelectSeq(
      Scored(segment,
             Limit(OrderByLastUsedDesc(
               {i \in 1 .. Len(segments) : segments[i].lang_pair = lang_pair}))),
      LAMBDA m : RatioGE(m.similarity, 9, 10)))

\* A caller's find_matching_segments(segment, lang_pair): cursor() is called
\* before the try and raises on a closed connection; an error of the SELECT
\* (fault) is caught and gives the empty list.
FindMatchingSegmentsCallResult(segment, lang_pair, fault) ==
  IF conns[1].closed THEN [raised |-> TRUE, ret |-> <<>>]
  ELSE IF fault THEN [raised |-> FALSE, ret |-> <<>>]
  ELSE [raised |-> FALSE, ret |-> FindMatchingSegments(segment, lang_pair)]

\* A lookup that also marks the rows it matched as used now.
SegmentsAfterFindMarkingUsed(matches) ==
  [i \in 1 .. Len(segments) |->
     IF \E k \in 1 .. Len(matches) : matches[k].rowid = i
     THEN [segments[i] EXCEPT !.usage_count = @ + 1, !.last_used = clock]
     ELSE segments[i]]

\* The table segments after find_matching_segments, whose only statement is
\* a SELECT: what it was.
SegmentsAfterFind(matches) == segments

\* SELECT COUNT(*) FROM segments WHERE usage_count >= 1
ReusedSegmentsAtLeastOnce(table) ==
  Cardinality({i \in 1 .. Len(table) : table[i].usage_count >= 1})

\* SELECT COUNT(*) FROM segments WHERE usage_count > 1
ReusedSegments(table) ==
  Cardinality({i \in 1 .. Len(table) : table[i].usage_count > 1})

\* The record get_statistics returns when it cannot read the store.
\* The rows of translations in S by translation_date descending; rows of
\* one date come in the order the build gives them.
OrderByTranslationDateDesc(S) ==
  LET Before(j, i) ==
        \/ translations[j].translation_date > translations[i].translation_date
        \/ /\ translations[j].translation_date = translations[i].translation_date
           /\ IF build.ties = "asc" THEN j < i ELSE j > i
      placed == {<<i, 1 + Cardinality({j \in S : Before(j, i)})>> : i \in S}
  IN  [p \in 1 .. Cardinality(S) |-> (CHOOSE t \in placed : t[2] = p)[1]]

\* The entry of get_translation_history for translation row k, file_name
\* being that of the row's document and "" when it has none.
HistoryEntry(k) ==
  LET owners == {d \in 1 .. Len(documents) :
                   documents[d].id = translations[k].document_id}
  IN  [file_name |-> IF owners = {} THEN ""
                     ELSE documents[Min(owners)].original_path,
       date |-> translations[k].translation_date,
       lang_pair |-> translations[k].lang_pair]

\* A history over a LEFT JOIN: every translation row has an entry.
GetTranslationHistoryOfAllRows(fault) ==
  IF conns[1].closed THEN [raised |-> TRUE, ret |-> <<>>]
  ELSE IF fault THEN [raised |-> FALSE, ret |-> <<>>]
  ELSE LET order == OrderByTranslationDateDesc(1 .. Len(translations))
       IN  [raised |-> FALSE,
            ret |-> [p \in 1 .. Len(order) |-> HistoryEntry(order[p])]]

\* get_translation_history(): translations JOIN documents ON t.document_id =
\* d.id ORDER BY t.translation_date DESC.  cursor() is called before the try
\* and raises on a closed connection; an error inside the try gives [].
GetTranslationHistoryResult(fault) ==
  IF conns[1].closed THEN [raised |-> TRUE, ret |-> <<>>]
  ELSE IF fault THEN [raised |-> FALSE, ret |-> <<>>]
  ELSE LET joined == {k \in 1 .. Len(translations) :
                        \E d \in 1 .. Len(documents) :
                          documents[d].id = translations[k].document_id}
           order  == OrderByTranslationDateDesc(joined)
       IN  [raised |-> FALSE,
            ret |-> [p \in 1 .. Len(order) |-> HistoryEntry(order[p])]]

NoStatistics ==
  [total_documents |-> 0, total_translations |-> 0,
   revision_rate |-> <<0, 1>>, reuse_rate |-> <<0, 1>>]

\* get_statistics(): the rates are quotients, kept as <<numerator,
\* denominator>>; reused / total * 100 is <<reused * 100, total>>.  No
\* statement of the program sets is_revised, so no row counts as revised.
GetStatisticsResult(fault) ==
  IF conns[1].closed THEN [raised |-> TRUE, ret |-> NoStatistics]
  ELSE IF fault THEN [raised |-> FALSE, ret |-> NoStatistics]
  ELSE [raised |-> FALSE,
        ret |-> [total_documents |-> Len(documents),
                 total_translations |-> Len(translations),
                 revision_rate |-> IF Len(translations) > 0
                                   THEN <<0 * 100, Len(translations)>> ELSE <<0, 1>>,
                 reuse_rate |-> IF Len(segments) > 0
                                THEN <<ReusedSegments(segments) * 100, Len(segments)>>
                                ELSE <<0, 1>>]]

\* A file as find_similar_documents meets it at its stored location: whether
\* os.path.exists holds, whether open and read as UTF-8 succeed, and its text.
MissingFile == [exists |-> FALSE, decodes |-> FALSE, text |-> <<>>]

UndecodableFile == [exists |-> TRUE, decodes |-> FALSE, text |-> <<>>]

TextFile(text) == [exists |-> TRUE, decodes |-> TRUE, text |-> text]

\* Rows of documents ORDER BY upload_date DESC LIMIT 50; rows of equal
\* upload_date come in rowid order, ascending or descending by the build.
RecentDocuments ==
  LET S == 1 .. Len(documents)
      Before(j, i) ==
        \/ documents[j].upload_date > documents[i].upload_date
        \/ /\ documents[j].upload_date = documents[i].upload_date
           /\ IF build.ties = "asc" THEN j < i ELSE j > i
      placed == {<<i, 1 + Cardinality({j \in S : Before(j, i)})>> : i \in S}
      rows == [p \in 1 .. Len(documents) |-> (CHOOSE t \in placed : t[2] = p)[1]]
  IN  SubSeq(rows, 1, Min({Len(rows), DocumentLimit}))

\* find_similar_documents(content) with the default threshold 0.8, files
\* giving the file at each stored location.  A file that does not exist is
\* passed over; open or read raising on a file that exists ends the loop in
\* the handler of the whole method, which returns the empty list.
FindSimilarDocuments(content, files) ==
  LET rows == RecentDocuments
      scored == [k \in 1 .. Len(rows) |->
                   [doc_id |-> documents[rows[k]].id,
                    exists |-> files[documents[rows[k]].original_path].exists,
                    similarity |->
                      IF files[documents[rows[k]].original_path].decodes
                      THEN Similarity(content, files[documents[rows[k]].original_path].text)
                      ELSE <<0, 1>>]]
  IN  IF \E k \in 1 .. Len(rows) :
           /\ files[documents[rows[k]].original_path].exists
           /\ ~files[documents[rows[k]].original_path].decodes
      THEN <<>>
      ELSE SortBySimilarityDesc(
             SelectSeq(scored, LAMBDA d : d.exists /\ RatioGE(d.similarity, 8, 10)))

\* A caller's find_similar_documents(content): cursor() is called before the
\* try and raises on a closed connection; an error of the SELECT (fault) is
\* caught and gives the empty list.
FindSimilarDocumentsCallResult(content, files, fault) ==
  IF conns[1].closed THEN [raised |-> TRUE, ret |-> <<>>]
  ELSE IF fault THEN [raised |-> FALSE, ret |-> <<>>]
  ELSE [raised |-> FALSE, ret |-> FindSimilarDocuments(content, files)]

\* -------------------------------------------- translation_manager.translate
NoMatch == [rowid |-> NULL, source |-> <<>>, translated |-> <<>>, similarity |-> <<0, 1>>]

\* A cutoff that only an identical text passes.
HighConfidenceIdentical(matches) == matches # <<>> /\ RatioGE(matches[1].similarity, 1, 1)

\* The comparison with >= in the place of >.
HighConfidenceInclusive(matches) == matches # <<>> /\ RatioGE(matches[1].similarity, 19, 20)

\* similar_segments and similar_segments[0]['similarity'] > 0.95
HighConfidence(matches) == matches # <<>> /\ RatioGT(matches[1].similarity, 19, 20)

\* The guard of translate(): not text or not text.strip()
IsBlank(text) == text = <<>> \/ Strip(text) = <<>>

\* similar_segments[0], when there is one
Best(matches) == IF matches = <<>> THEN NoMatch ELSE matches[1]

\* What translate() hands back when it stores nothing.
Unstored(ret, kind, looked, best, ext, extFailed) ==
  [raised |-> FALSE, ret |-> ret, kind |-> kind, looked |-> looked, best |-> best,
   ext |-> ext, extFailed |-> extFailed,
   translations |-> translations, segments |-> segments]

\* The end of translate(): store_translation(None, lang_pair, out, [(text, out)])
\* has given stored; return the translation, or the text when it raised.
\* A translate() that returns the translation it obtained even when the
\* store refused it.
AfterStoreKeepingTranslation(text, out, best, stored) ==
  IF stored.raised
  THEN Unstored(out, "store_failed", TRUE, best, 1, FALSE)
  ELSE [raised |-> FALSE, ret |-> out, kind |-> "fresh", looked |-> TRUE,
        best |-> best, ext |-> 1, extFailed |-> FALSE,
        translations |-> stored.translations, segments |-> stored.segments]

AfterStore(text, out, best, stored) ==
  IF stored.raised
  THEN Unstored(text, "store_failed", TRUE, best, 1, FALSE)
  ELSE [raised |-> FALSE, ret |-> out, kind |-> "fresh", looked |-> TRUE,
        best |-> best, ext |-> 1, extFailed |-> FALSE,
        translations |-> stored.translations, segments |-> stored.segments]

\* translate() with "raise" in the place of "return text" in its handler.
FreshTranslationReraising(text, lang_pair, extOk, dbOk, best, out) ==
  IF lang_pair \notin SupportedPairs
  THEN [Unstored(<<>>, "unsupported", TRUE, best, 0, FALSE) EXCEPT !.raised = TRUE]
  ELSE IF ~extOk
  THEN [Unstored(<<>>, "degraded", TRUE, best, 1, TRUE) EXCEPT !.raised = TRUE]
  ELSE AfterStore(text, out, best,
                  StoreTranslationResult(NULL, lang_pair, out, <<<<text, out>>>>, dbOk))

\* _perform_translation and what follows it in translate(): load_model raises
\* for an unsupported pair, the model may fail (extOk false), and every
\* exception ends in "return text".
\* A fresh translation that is returned without being stored.
FreshTranslationUnstored(text, lang_pair, extOk, dbOk, best, out) ==
  IF lang_pair \notin SupportedPairs
  THEN Unstored(text, "unsupported", TRUE, best, 0, FALSE)
  ELSE IF ~extOk
  THEN Unstored(text, "degraded", TRUE, best, 1, TRUE)
  ELSE Unstored(out, "fresh", TRUE, best, 1, FALSE)

FreshTranslation(text, lang_pair, extOk, dbOk, best, out) ==
  IF lang_pair \notin SupportedPairs
  THEN Unstored(text, "unsupported", TRUE, best, 0, FALSE)
  ELSE IF ~extOk
  THEN Unstored(text, "degraded", TRUE, best, 1, TRUE)
  ELSE AfterStore(text, out, best,
                  StoreTranslationResult(NULL, lang_pair, out, <<<<text, out>>>>, dbOk))

\* A translate() that stores the pair also when it reuses a stored translation.
TranslateWithStoringReuse(text, lang_pair, extOk, dbOk, matches) ==
  IF HighConfidence(matches)
  THEN [AfterStore(text, matches[1].translated, matches[1],
                   StoreTranslationResult(NULL, lang_pair, matches[1].translated,
                                          <<<<text, matches[1].translated>>>>, dbOk))
          EXCEPT !.kind = "reused", !.ext = 0]
  ELSE FreshTranslation(text, lang_pair, extOk, dbOk, Best(matches),
                        CleanTranslation(ModelDecode(text, lang_pair)))

\* translate() once find_matching_segments has given matches.
TranslateWith(text, lang_pair, extOk, dbOk, matches) ==
  IF HighConfidence(matches)
  THEN Unstored(matches[1].translated, "reused", TRUE, matches[1], 0, FALSE)
  ELSE FreshTranslation(text, lang_pair, extOk, dbOk, Best(matches),
                        CleanTranslation(ModelDecode(text, lang_pair)))

\* translate(text, lang_pair): the text returned and the tables left.  extOk
\* is whether the model call succeeds, dbOk whether the store's statements do.
TranslateResult(text, lang_pair, extOk, dbOk) ==
  IF IsBlank(text)
  THEN Unstored(text, "passthrough", FALSE, NoMatch, 0, FALSE)
  ELSE TranslateWith(text, lang_pair, extOk, dbOk, FindMatchingSegments(text, lang_pair))

\* ------------------------------------- gui_app.TranslationManager helpers
\* re.sub(phrase + r",?\s*", "", text), the phrase being one element of the text.
RECURSIVE DropPhrase(_, _)
DropPhrase(s, phrase) ==
  IF s = <<>> THEN <<>>
  ELSE IF Head(s) = phrase
       THEN IF Len(s) >= 2 /\ s[2] = ","
            THEN DropPhrase(SubSeq(s, 3 + SpaceRun(s, 3), Len(s)), phrase)
            ELSE DropPhrase(SubSeq(s, 2 + SpaceRun(s, 2), Len(s)), phrase)
       ELSE <<Head(s)>> \o DropPhrase(Tail(s), phrase)

\* The two substitutions of clean_translation, in their order.
DropApologies(s) == DropPhrase(DropPhrase(s, "I'm sorry"), "I apologize")

\* gui_app.TranslationManager.clean_translation
GuiCleanTranslation(text) == Strip(TightenPunctuation(CollapseSpaces(DropApologies(text))))

\* What a turn of gui_app's loop gives.
Turn(raised, ret, kind, best, ext, extFailed) ==
  [raised |-> raised, ret |-> ret, kind |-> kind, looked |-> TRUE, best |-> best,
   ext |-> ext, extFailed |-> extFailed]

\* translate_segment(text, lang_pair) on the stripped text: returns it when
\* nothing in it is alphanumeric, and raises whatever load_model or the
\* model raises.
TranslateStripped(text, lang_pair, extOk, best) ==
  IF text = <<>> \/ \A k \in 1 .. Len(text) : ~IsAlnum(text[k])
  THEN Turn(FALSE, text, "passthrough", best, 0, FALSE)
  ELSE IF lang_pair \notin SupportedPairs
  THEN Turn(TRUE, <<>>, "unsupported", best, 0, FALSE)
  ELSE IF ~extOk
  THEN Turn(TRUE, <<>>, "failed", best, 1, TRUE)
  ELSE Turn(FALSE, Strip(GuiCleanTranslation(ModelDecode(text, lang_pair))),
            "fresh", best, 1, FALSE)

\* One turn of the loop of gui_app translate_document once
\* find_matching_segments has given matches.
GuiSegmentWith(segment, lang_pair, extOk, matches) ==
  IF HighConfidence(matches)
  THEN Turn(FALSE, matches[1].translated, "reused", matches[1], 0, FALSE)
  ELSE TranslateStripped(Strip(segment), lang_pair, extOk, Best(matches))

GuiSegmentResult(segment, lang_pair, extOk) ==
  GuiSegmentWith(segment, lang_pair, extOk, FindMatchingSegments(segment, lang_pair))

\* ------------------------------------------------------------ load_model
\* load_model(lang_pair) on the two caches: nothing for a pair whose model is
\* cached; ValueError for an unsupported pair; else the tokenizer is loaded
\* and cached, then the model.  from_pretrained may raise for either
\* (tokenizerOk, modelOk false), and load_model raises it again.
LoadModelResult(cachedModels, cachedTokenizers, lang_pair, tokenizerOk, modelOk) ==
  IF lang_pair \in cachedModels
  THEN [raised |-> FALSE, loaded |-> <<>>,
        models |-> cachedModels, tokenizers |-> cachedTokenizers]
  ELSE IF lang_pair \notin SupportedPairs \/ ~tokenizerOk
  THEN [raised |-> TRUE, loaded |-> <<>>,
        models |-> cachedModels, tokenizers |-> cachedTokenizers]
  ELSE IF ~modelOk
  THEN [raised |-> TRUE, loaded |-> <<"tokenizer">>,
        models |-> cachedModels, tokenizers |-> cachedTokenizers \cup {lang_pair}]
  ELSE [raised |-> FALSE, loaded |-> <<"tokenizer", "model">>,
        models |-> cachedModels \cup {lang_pair},
        tokenizers |-> cachedTokenizers \cup {lang_pair}]

\* The caches after a translation turn with result r: _perform_translation
\* has called load_model when the model was asked (r.ext = 1).
ModelsAfter(r, lang_pair) ==
  IF r.ext = 1 THEN LoadModelResult(models, tokenizers, lang_pair, TRUE, TRUE).models
  ELSE models

TokenizersAfter(r, lang_pair) ==
  IF r.ext = 1 THEN LoadModelResult(models, tokenizers, lang_pair, TRUE, TRUE).tokenizers
  ELSE tokenizers

\* ------------------------------------------------------- machine_lock.py
\* MachineLock.valid_auth_codes as __init__ builds it: the last two literals
\* have no comma between them and make one code.
ValidAuthCodes ==
  <<"INSTALL-123456", "SETUP-ABCDEF", "AUTH-XYZQWE", "ACTIVATE-789012",
    "ST24-ALPHA-7X9K2", "ST24-BETA-M5N8P", "ST24-GAMMA-Q4W6R", "ST24-DELTA-H2J5L",
    "ST24-EPSILON-T8V3B", "ST24-ZETA-Y6C9D", "ST24-ETA-F4G7H", "ST24-THETA-U1I8O",
    "ST24-IOTA-A5S2D", "ST24-KAPPA-X7M4NUNLOCK-MNBVCX">>

\* install_on_new_machine that leaves the list of codes as it is.
InstallKeepingCode(codes, code, writeOk) ==
  IF \E i \in 1 .. Len(codes) : codes[i] = code
  THEN [raised |-> ~writeOk, ok |-> writeOk, codes |-> codes, wrote |-> writeOk]
  ELSE [raised |-> FALSE, ok |-> FALSE, codes |-> codes, wrote |-> FALSE]

\* install_on_new_machine(code) on the list codes: a code in the list writes
\* the lock file (lock_to_machine, which raises when the file cannot be
\* opened for writing: writeOk false), then list.remove takes its first
\* occurrence out of the list.
InstallOnNewMachineResult(codes, code, writeOk) ==
  IF \E i \in 1 .. Len(codes) : codes[i] = code
  THEN IF writeOk
       THEN LET first == CHOOSE i \in 1 .. Len(codes) :
                           /\ codes[i] = code
                           /\ \A j \in 1 .. i - 1 : codes[j] # code
            IN [raised |-> FALSE, ok |-> TRUE,
                codes |-> [i \in 1 .. Len(codes) - 1 |->
                             IF i < first THEN codes[i] ELSE codes[i + 1]],
                wrote |-> TRUE]
       ELSE [raised |-> TRUE, ok |-> FALSE, codes |-> codes, wrote |-> FALSE]
  ELSE [raised |-> FALSE, ok |-> FALSE, codes |-> codes, wrote |-> FALSE]

\* -------------------------------------------------- credential_manager.py
\* initialize_credentials on the stored credentials at time now: the users
\* admin and jyga are added when missing, with a licence of 90 days.
InitializeCredentials(stored, now) ==
  LET expiration == now + LicenseDays
      builtin == <<[username |-> "admin", password |-> "password123",
                    expiration |-> expiration, license_type |-> "admin"],
                   [username |-> "jyga", password |-> "jygatech",
                    expiration |-> expiration, license_type |-> "premium"]>>
  IN stored \o SelectSeq(builtin,
                 LAMBDA u : \A i \in 1 .. Len(stored) : stored[i].username # u.username)

\* The entry of username in the credentials, or none.
UserData(creds, username) ==
  SelectSeq(creds, LAMBDA u : u.username = username)

\* check_credentials(username, password) at time now: what it returns.
CheckCredentialsResult(creds, username, password, now) ==
  LET found == UserData(creds, username)
  IN IF /\ found # <<>>
        /\ found[1].password = password
        /\ found[1].expiration > now
     THEN <<TRUE, found[1].expiration - now, found[1].license_type>>
     ELSE <<FALSE, 0, "invalid">>

\* extend_license that adds the days to the stored expiration, expired or not.
ExtendFromExpiration(creds, username, days, now, saveOk) ==
  IF UserData(creds, username) # <<>> /\ saveOk
  THEN [ok |-> TRUE,
        credentials |-> [i \in 1 .. Len(creds) |->
                           IF creds[i].username = username
                           THEN [creds[i] EXCEPT !.expiration = creds[i].expiration + days]
                           ELSE creds[i]]]
  ELSE [ok |-> FALSE, credentials |-> creds]

\* extend_license(username, days) at time now: the new expiration counts
\* from the later of the stored expiration and now; the call returns True
\* when save_credentials wrote the file (saveOk), and False otherwise and
\* for a user that is not stored.
ExtendLicenseResult(creds, username, days, now, saveOk) ==
  IF UserData(creds, username) # <<>> /\ saveOk
  THEN [ok |-> TRUE,
        credentials |-> [i \in 1 .. Len(creds) |->
                           IF creds[i].username = username
                           THEN [creds[i] EXCEPT !.expiration =
                                   (IF creds[i].expiration > now
                                    THEN creds[i].expiration ELSE now) + days]
                           ELSE creds[i]]]
  ELSE [ok |-> FALSE, credentials |-> creds]

\* ---------------------------------------------------------- the machine
\* The record kept of the last completed call: its arguments, what it
\* returned or that it raised, the sizes of the tables when it began, and
\* log, one entry per segment handled (one entry for a translate call).
NoCall ==
  [op |-> "none", impl |-> "none", bytes |-> "", text |-> <<>>, lang_pair |-> "",
   document_id |-> NULL, raised |-> FALSE, ret |-> <<>>, id |-> NULL,
   existed |-> FALSE, log |-> <<>>, progress |-> <<>>, pairs |-> <<>>, files |-> <<>>,
   fault |-> FALSE, wasClosed |-> FALSE,
   code |-> "", username |-> "", password |-> "", days |-> 0, ok |-> FALSE,
   loaded |-> <<>>,
   nDocuments |-> 0, nTranslations |-> 0, nSegments |-> 0]

NoFrame ==
  [impl |-> "none", bytes |-> "", content |-> <<>>, lang_pair |-> "",
   document_id |-> NULL, existed |-> FALSE, segs |-> <<>>, out |-> <<>>, log |-> <<>>,
   progress |-> <<>>, nDocuments |-> 0, nTranslations |-> 0, nSegments |-> 0]

\* What a turn over one segment did: r is its result, wrote whether it
\* changed a table.
LogEntry(segment, r, wrote) ==
  [segment |-> segment, ret |-> r.ret, kind |-> r.kind, looked |-> r.looked,
   similarity |-> r.best.similarity, matched |-> r.best.translated,
   ext |-> r.ext, extFailed |-> r.extFailed, wrote |-> wrote]

\* The managers that hold a connection (sqlite3.connect) on the database file.
Connections == {1, 2}

\* A connection as connect() gives it: open, with no transaction under way.
\* pending holds the translation rows inserted and not yet committed.
\* busy tells that the connection's last INSERT gave up waiting for the lock.
\* inserting holds the document a store_document on the connection has
\* looked up without finding it and has not yet inserted.
NoTransaction ==
  [closed |-> FALSE, pending |-> <<>>, busy |-> FALSE, inserting |-> <<>>]

\* A database file without a write lock: every connection may write.
WriteLockAlways(c) == TRUE

\* SQLite's write lock on the database file, taken by the first INSERT of a
\* transaction and held until commit or rollback: connection c gets it when
\* no other connection has uncommitted rows.
WriteLockFree(c) == \A d \in Connections \ {c} : conns[d].pending = <<>>

\* The INSERT INTO translations of store_translation on connection c.  It
\* waits for the write lock and raises "database is locked" when the wait
\* times out; under the lock it reads MAX(version) and inserts the row,
\* which stays uncommitted.
InsertTranslationResult(c, document_id, lang_pair, translated_content) ==
  IF ~WriteLockFree(c)
  THEN [raised |-> TRUE, pending |-> <<>>]
  ELSE [raised |-> FALSE,
        pending |-> <<[id |-> Len(translations) + 1, document_id |-> document_id,
                       lang_pair |-> lang_pair,
                       translated_content |-> translated_content,
                       translation_date |-> clock,
                       version |-> NextVersion(translations, document_id)]>>]

Init ==
  /\ documents = <<>>
  /\ translations = <<>>
  /\ segments = <<>>
  /\ clock = 0
  /\ build \in [plan : {"index_or", "scan"}, ties : {"asc", "desc"}]
  /\ pc = "idle"
  /\ td = NoFrame
  /\ last = NoCall
  /\ conns = [c \in Connections |-> NoTransaction]
  /\ valid_auth_codes = ValidAuthCodes
  /\ lock_file = <<>>
  /\ credentials = InitializeCredentials(<<>>, clock)
  /\ models = {}
  /\ tokenizers = {}

\* Time passes.
Tick ==
  /\ clock < MaxClock
  /\ clock' = clock + 1
  /\ UNCHANGED <<documents, translations, segments, build, licence, caches, pc, td, last, conns>>

\* A caller's store_document(file_path, content, file_type).
StoreDocumentDone(bytes, content, r) ==
      /\ pc = "idle"
      /\ documents' = r.documents
      /\ last' = [NoCall EXCEPT !.op = "store_document", !.impl = "db",
                    !.bytes = bytes, !.text = content,
                    !.raised = r.raised, !.id = r.id, !.existed = r.existed,
                    !.nDocuments = Len(documents),
                    !.nTranslations = Len(translations), !.nSegments = Len(segments)]
      /\ UNCHANGED <<translations, segments, clock, build, licence, caches, pc, td, conns>>

StoreDocument(file_path, bytes, content, dbOk) ==
  StoreDocumentDone(bytes, content, StoreDocumentResult(file_path, bytes, content, dbOk))

\* A caller's store_translation(document_id, lang_pair, translated_content, segments).
StoreTranslationDone(document_id, lang_pair, translated_content, pairs, r) ==
      /\ pc = "idle"
      /\ translations' = r.translations
      /\ segments' = r.segments
      /\ last' = [NoCall EXCEPT !.op = "store_translation", !.impl = "db",
                    !.document_id = document_id, !.lang_pair = lang_pair,
                    !.text = translated_content, !.pairs = pairs,
                    !.raised = r.raised, !.id = r.id,
                    !.nDocuments = Len(documents),
                    !.nTranslations = Len(translations), !.nSegments = Len(segments)]
      /\ UNCHANGED <<documents, clock, build, licence, caches, pc, td, conns>>

StoreTranslation(document_id, lang_pair, translated_content, pairs, dbOk) ==
  /\ Len(translations) < MaxTranslations
  /\ Len(segments) + Len(pairs) <= MaxSegments
  /\ StoreTranslationDone(document_id, lang_pair, translated_content, pairs,
       StoreTranslationResult(document_id, lang_pair, translated_content, pairs, dbOk))

\* A caller's translation_manager translate(text, lang_pair).
TranslateDone(text, lang_pair, r) ==
      /\ pc = "idle"
      /\ translations' = r.translations
      /\ segments' = r.segments
      /\ last' = [NoCall EXCEPT !.op = "translate", !.impl = "tm", !.text = text,
                    !.lang_pair = lang_pair, !.raised = r.raised, !.ret = r.ret,
                    !.log = <<LogEntry(text, r, r.translations # translations
                                                  \/ r.segments # segments)>>,
                    !.nDocuments = Len(documents),
                    !.nTranslations = Len(translations), !.nSegments = Len(segments)]
      /\ models' = ModelsAfter(r, lang_pair)
      /\ tokenizers' = TokenizersAfter(r, lang_pair)
      /\ UNCHANGED <<documents, clock, build, licence, pc, td, conns>>

Translate(text, lang_pair, extOk, dbOk) ==
  /\ Len(segments) < MaxAdhocSegments
  /\ TranslateDone(text, lang_pair, TranslateResult(text, lang_pair, extOk, dbOk))

\* gui_app check_existing_translation(doc_id, lang_pair): it asks the store
\* for get_document_history, which TranslationDatabaseManager does not
\* define, so the call raises AttributeError inside the try and the handler
\* returns None.  found tells whether a translation is returned.
CheckExistingTranslation(doc_id, lang_pair) ==
  [found |-> FALSE, translated_content |-> <<>>]

\* translate_document of either manager up to its loop: store_document, then
\* split_into_segments.  gui_app, when the document existed, first returns
\* what check_existing_translation gives if it gives a translation; it also
\* calls find_similar_documents, whose result it does not use.
\* translation_manager does not look at whether the document existed.
BeginDone(impl, bytes, content, lang_pair, r) ==
      /\ pc = "idle"
      /\ documents' = r.documents
      /\ IF r.raised
         THEN /\ last' = [NoCall EXCEPT !.op = "translate_document", !.impl = impl,
                            !.bytes = bytes, !.text = content, !.lang_pair = lang_pair,
                            !.raised = TRUE, !.nDocuments = Len(documents),
                            !.nTranslations = Len(translations),
                            !.nSegments = Len(segments)]
              /\ UNCHANGED <<pc, td>>
         ELSE IF impl = "gui" /\ r.existed /\ CheckExistingTranslation(r.id, lang_pair).found
         THEN /\ last' = [NoCall EXCEPT !.op = "translate_document", !.impl = impl,
                            !.bytes = bytes, !.text = content, !.lang_pair = lang_pair,
                            !.document_id = r.id, !.existed = TRUE,
                            !.ret = CheckExistingTranslation(r.id, lang_pair).translated_content,
                            !.nDocuments = Len(documents),
                            !.nTranslations = Len(translations),
                            !.nSegments = Len(segments)]
              /\ UNCHANGED <<pc, td>>
         ELSE /\ pc' = "loop"
              /\ td' = [NoFrame EXCEPT !.impl = impl, !.bytes = bytes,
                          !.content = content, !.lang_pair = lang_pair,
                          !.document_id = r.id, !.existed = r.existed,
                          !.segs = SplitIntoSegments(content),
                          !.nDocuments = Len(documents),
                          !.nTranslations = Len(translations),
                          !.nSegments = Len(segments)]
              /\ UNCHANGED last
      /\ UNCHANGED <<translations, segments, clock, build, licence, caches, conns>>

BeginTranslateDocument(impl, file_path, bytes, content, lang_pair, dbOk) ==
  BeginDone(impl, bytes, content, lang_pair,
            StoreDocumentResult(file_path, bytes, content, dbOk))

\* The call under way ends: what it leaves in last.
EndOfCall(raised, ret, id, log, progress) ==
  [NoCall EXCEPT !.op = "translate_document", !.impl = td.impl,
     !.bytes = td.bytes, !.text = td.content, !.lang_pair = td.lang_pair,
     !.document_id = td.document_id, !.existed = td.existed, !.raised = raised,
     !.ret = ret, !.id = id, !.log = log, !.progress = progress,
     !.nDocuments = td.nDocuments, !.nTranslations = td.nTranslations,
     !.nSegments = td.nSegments]

\* int((i + 1) * 100 / total_segments) for the i-th segment counted from 1
Progress(i, total) == (i * 100) \div total

\* A turn over segment td.segs[i] gave r (wrote: it changed a table): an
\* exception ends the call, otherwise the loop goes on.
TurnDone(i, r, wrote, progress) ==
  IF r.raised
  THEN /\ pc' = "idle"
       /\ td' = NoFrame
       /\ last' = EndOfCall(TRUE, <<>>, NULL,
                            Append(td.log, LogEntry(td.segs[i], r, wrote)), progress)
  ELSE /\ td' = [td EXCEPT !.out = Append(@, r.ret),
                           !.log = Append(@, LogEntry(td.segs[i], r, wrote)),
                           !.progress = Append(@, Progress(i, Len(td.segs)))]
       /\ UNCHANGED <<pc, last>>

TmSegmentDone(i, r) ==
  /\ translations' = r.translations
  /\ segments' = r.segments
  /\ TurnDone(i, r, r.translations # translations \/ r.segments # segments, td.progress)
  /\ models' = ModelsAfter(r, td.lang_pair)
  /\ tokenizers' = TokenizersAfter(r, td.lang_pair)
  /\ UNCHANGED <<documents, clock, build, licence, conns>>

\* translation_manager translate_document: one turn of its loop, which
\* translates the segment with translate() and then reports progress.
TmSegment(extOk, dbOk) ==
  /\ pc = "loop"
  /\ td.impl = "tm"
  /\ Len(td.out) < Len(td.segs)
  /\ Len(translations) < MaxDocTranslations
  /\ Len(segments) < MaxDocSegments
  /\ TmSegmentDone(Len(td.out) + 1,
       TranslateResult(td.segs[Len(td.out) + 1], td.lang_pair, extOk, dbOk))

GuiSegmentDone(i, r) ==
  /\ TurnDone(i, r, FALSE, Append(td.progress, Progress(i, Len(td.segs))))
  /\ models' = ModelsAfter(r, td.lang_pair)
  /\ tokenizers' = TokenizersAfter(r, td.lang_pair)
  /\ UNCHANGED <<documents, translations, segments, clock, build, licence, conns>>

\* gui_app translate_document: one turn of its loop, which reports progress,
\* looks the segment up and translates it with translate_segment() when no
\* match is above the cutoff; an exception ends the call.
GuiSegment(extOk) ==
  /\ pc = "loop"
  /\ td.impl = "gui"
  /\ Len(td.out) < Len(td.segs)
  /\ GuiSegmentDone(Len(td.out) + 1,
       GuiSegmentResult(td.segs[Len(td.out) + 1], td.lang_pair, extOk))

FinishDone(translated_content, r) ==
  /\ translations' = r.translations
  /\ segments' = r.segments
  /\ pc' = "idle"
  /\ td' = NoFrame
  /\ last' = EndOfCall(r.raised, IF r.raised THEN <<>> ELSE translated_content,
                       r.id, td.log, td.progress)
  /\ UNCHANGED <<documents, clock, build, licence, caches, conns>>

\* translate_document of either manager after its loop: join the segments,
\* store_translation, return the text; a store failure is raised again.
FinishTranslateDocument(dbOk) ==
  /\ pc = "loop"
  /\ Len(td.out) = Len(td.segs)
  /\ Len(translations) < MaxDocTranslations
  /\ Len(segments) + Len(td.segs) <= MaxDocSegments
  /\ FinishDone(JoinLines(td.out),
       StoreTranslationResult(td.document_id, td.lang_pair, JoinLines(td.out),
                              Zip(td.segs, td.out), dbOk))

\* A caller's store_translation during which statement failAt raises.
StoreTranslationFails(document_id, lang_pair, translated_content, pairs, failAt) ==
  /\ Len(translations) < MaxTranslations
  /\ Len(segments) + Len(pairs) <= MaxSegments
  /\ StoreTranslationDone(document_id, lang_pair, translated_content, pairs,
       StoreTranslationInterrupted(document_id, lang_pair, translated_content,
                                   pairs, failAt))

\* A caller's store_translation with as many pairs as find_matching_segments
\* considers rows, into a store that holds no segment yet.
StoreManySegments(document_id, lang_pair, translated_content, pairs) ==
  /\ segments = <<>>
  /\ Len(translations) < MaxTranslations
  /\ StoreTranslationDone(document_id, lang_pair, translated_content, pairs,
       StoreTranslationResult(document_id, lang_pair, translated_content, pairs, TRUE))

\* A caller's store_translation into a store that holds as many rows as
\* find_matching_segments considers, or more.
StoreOverLimit(document_id, lang_pair, translated_content, pairs) ==
  /\ Len(segments) >= SegmentLimit
  /\ Len(segments) + Len(pairs) <= SegmentLimit + MaxOverLimit
  /\ StoreTranslationDone(document_id, lang_pair, translated_content, pairs,
       StoreTranslationResult(document_id, lang_pair, translated_content, pairs, TRUE))

\* A caller's find_matching_segments(segment, lang_pair).
FindMatchingSegmentsDone(segment, lang_pair, fault, r) ==
  /\ pc = "idle"
  /\ segments' = SegmentsAfterFind(r.ret)
  /\ last' = [NoCall EXCEPT !.op = "find_matching_segments", !.impl = "db",
                !.text = segment, !.lang_pair = lang_pair, !.fault = fault,
                !.raised = r.raised, !.ret = r.ret,
                !.nDocuments = Len(documents),
                !.nTranslations = Len(translations), !.nSegments = Len(segments)]
  /\ UNCHANGED <<documents, translations, clock, build, licence, caches, pc, td, conns>>

FindMatchingSegmentsCall(segment, lang_pair, fault) ==
  FindMatchingSegmentsDone(segment, lang_pair, fault,
                           FindMatchingSegmentsCallResult(segment, lang_pair, fault))

\* A caller's get_statistics().
GetStatisticsDone(fault, r) ==
  /\ pc = "idle"
  /\ last' = [NoCall EXCEPT !.op = "get_statistics", !.impl = "db", !.fault = fault,
                !.raised = r.raised, !.ret = r.ret,
                !.nDocuments = Len(documents),
                !.nTranslations = Len(translations), !.nSegments = Len(segments)]
  /\ UNCHANGED <<documents, translations, segments, clock, build, licence, caches, pc, td, conns>>

GetStatistics(fault) == GetStatisticsDone(fault, GetStatisticsResult(fault))

\* A caller's get_translation_history().
GetTranslationHistoryDone(fault, r) ==
  /\ pc = "idle"
  /\ last' = [NoCall EXCEPT !.op = "get_translation_history", !.impl = "db",
                !.fault = fault, !.raised = r.raised, !.ret = r.ret,
                !.nDocuments = Len(documents),
                !.nTranslations = Len(translations), !.nSegments = Len(segments)]
  /\ UNCHANGED <<documents, translations, segments, clock, build, licence, caches, pc, td, conns>>

GetTranslationHistory(fault) ==
  GetTranslationHistoryDone(fault, GetTranslationHistoryResult(fault))

\* A caller's find_similar_documents(content).
FindSimilarDocumentsDone(content, files, fault, r) ==
  /\ pc = "idle"
  /\ last' = [NoCall EXCEPT !.op = "find_similar_documents", !.impl = "db",
                !.text = content, !.files = files, !.fault = fault,
                !.raised = r.raised, !.ret = r.ret,
                !.nDocuments = Len(documents),
                !.nTranslations = Len(translations), !.nSegments = Len(segments)]
  /\ UNCHANGED <<documents, translations, segments, clock, build, licence, caches, pc, td, conns>>

FindSimilarDocumentsCall(content, files, fault) ==
  FindSimilarDocumentsDone(content, files, fault,
                           FindSimilarDocumentsCallResult(content, files, fault))

\* A close() that lets the error of closing a closed connection out.
CloseResultStrict(conn) ==
  [raised |-> conn.closed, conn |-> [conn EXCEPT !.closed = TRUE, !.pending = <<>>]]

\* close(): self.conn.close() inside a try whose handler logs.  Closing
\* drops what is uncommitted; closing a closed connection does nothing.
CloseResult(conn) ==
  [raised |-> FALSE, conn |-> [conn EXCEPT !.closed = TRUE, !.pending = <<>>]]

\* split_into_segments(content)
SplitDone(content, r) ==
  /\ pc = "idle"
  /\ last' = [NoCall EXCEPT !.op = "split_into_segments", !.impl = "db",
                !.text = content, !.ret = r]
  /\ UNCHANGED <<documents, translations, segments, clock, build, licence, caches, pc, td, conns>>

SplitIntoSegmentsCall(content) == SplitDone(content, SplitIntoSegments(content))

\* SequenceMatcher(None, a, b).ratio() as find_matching_segments and
\* find_similar_documents compute it for a query a and a stored text b.
SimilarityDone(a, b, r) ==
  /\ pc = "idle"
  /\ last' = [NoCall EXCEPT !.op = "similarity", !.impl = "db",
                !.pairs = <<<<a, b>>>>, !.ret = r]
  /\ UNCHANGED <<documents, translations, segments, clock, build, licence, caches, pc, td, conns>>

SimilarityCall(a, b) == SimilarityDone(a, b, Ratio(a, b))

\* A caller's close().
CloseDone(r) ==
  /\ pc = "idle"
  /\ conns' = [conns EXCEPT ![1] = r.conn]
  /\ last' = [NoCall EXCEPT !.op = "close", !.impl = "db", !.raised = r.raised,
                !.wasClosed = conns[1].closed,
                !.nDocuments = Len(documents),
                !.nTranslations = Len(translations), !.nSegments = Len(segments)]
  /\ UNCHANGED <<documents, translations, segments, clock, build, licence, caches, pc, td>>

Close == CloseDone(CloseResult(conns[1]))

\* A caller's cleanup() of a manager: the GPU cache is emptied, the store
\* closed and the models dropped, inside a try whose handler logs; when
\* emptying the cache raises (gpuOk false) the store is not closed and the
\* models stay.
CleanupDone(gpuOk, r) ==
  /\ pc = "idle"
  /\ models' = IF gpuOk THEN {} ELSE models
  /\ tokenizers' = IF gpuOk THEN {} ELSE tokenizers
  /\ conns' = [conns EXCEPT ![1] = r.conn]
  /\ last' = [NoCall EXCEPT !.op = "cleanup", !.impl = "tm", !.raised = FALSE,
                !.wasClosed = conns[1].closed,
                !.nDocuments = Len(documents),
                !.nTranslations = Len(translations), !.nSegments = Len(segments)]
  /\ UNCHANGED <<documents, translations, segments, clock, build, licence, pc, td>>

Cleanup(gpuOk) ==
  CleanupDone(gpuOk, IF gpuOk THEN CloseResult(conns[1]) ELSE [raised |-> FALSE, conn |-> conns[1]])

\* store_translation on connection c up to its INSERT INTO translations:
\* the row is inserted and not yet committed, or the call has raised.
InsertTranslationDone(c, document_id, lang_pair, r) ==
  /\ pc = "idle"
  /\ conns' = [conns EXCEPT ![c].pending = r.pending, ![c].busy = r.raised]
  /\ last' = IF r.raised
             THEN [NoCall EXCEPT !.op = "store_translation", !.impl = "db",
                     !.document_id = document_id, !.lang_pair = lang_pair,
                     !.raised = TRUE,
                     !.nDocuments = Len(documents),
                     !.nTranslations = Len(translations), !.nSegments = Len(segments)]
             ELSE last
  /\ UNCHANGED <<documents, translations, segments, clock, build, licence, caches, pc, td>>

InsertTranslation(c, document_id, lang_pair, translated_content) ==
  /\ ~conns[c].closed
  /\ conns[c].pending = <<>>
  /\ Len(translations) < MaxTranslations
  /\ InsertTranslationDone(c, document_id, lang_pair,
       InsertTranslationResult(c, document_id, lang_pair, translated_content))

\* self.conn.commit() of the store_translation under way on connection c:
\* its row joins the table and the call returns the row's id.
CommitTranslation(c) ==
  /\ pc = "idle"
  /\ conns[c].pending # <<>>
  /\ translations' = translations \o conns[c].pending
  /\ conns' = [conns EXCEPT ![c].pending = <<>>]
  /\ last' = [NoCall EXCEPT !.op = "store_translation", !.impl = "db",
                !.document_id = conns[c].pending[1].document_id,
                !.lang_pair = conns[c].pending[1].lang_pair,
                !.text = conns[c].pending[1].translated_content,
                !.raised = FALSE, !.id = conns[c].pending[1].id,
                !.nDocuments = Len(documents),
                !.nTranslations = Len(translations), !.nSegments = Len(segments)]
  /\ UNCHANGED <<documents, segments, clock, build, licence, caches, pc, td>>

\* A later statement of the store_translation under way on connection c
\* fails: the handler rolls back and raises.
RollbackTranslation(c) ==
  /\ pc = "idle"
  /\ conns[c].pending # <<>>
  /\ conns' = [conns EXCEPT ![c].pending = <<>>]
  /\ last' = [NoCall EXCEPT !.op = "store_translation", !.impl = "db",
                !.document_id = conns[c].pending[1].document_id,
                !.lang_pair = conns[c].pending[1].lang_pair,
                !.text = conns[c].pending[1].translated_content,
                !.raised = TRUE,
                !.nDocuments = Len(documents),
                !.nTranslations = Len(translations), !.nSegments = Len(segments)]
  /\ UNCHANGED <<documents, translations, segments, clock, build, licence, caches, pc, td>>

\* store_document on connection c up to cursor.fetchone(): the hashes are
\* computed and the SELECT is run on what is committed.  With a row found
\* the call returns (id, True); without one it goes on to its INSERT.
LookupDocument(c, file_path, bytes, content) ==
  /\ pc = "idle"
  /\ ~conns[c].closed
  /\ conns[c].inserting = <<>>
  /\ conns[c].pending = <<>>
  /\ IF MatchingDocuments(Md5(bytes), Md5(content)) # {}
     THEN /\ last' = [NoCall EXCEPT !.op = "store_document", !.impl = "db",
                        !.bytes = bytes, !.text = content,
                        !.id = documents[ExistingDocument(Md5(bytes), Md5(content))].id,
                        !.existed = TRUE, !.nDocuments = Len(documents),
                        !.nTranslations = Len(translations),
                        !.nSegments = Len(segments)]
          /\ UNCHANGED conns
     ELSE /\ conns' = [conns EXCEPT ![c].inserting =
                         <<[file_path |-> file_path, bytes |-> bytes,
                            content |-> content]>>]
          /\ UNCHANGED last
  /\ UNCHANGED <<documents, translations, segments, clock, build, licence, caches, pc, td>>

\* The rest of that store_document: INSERT INTO documents and commit, under
\* the write lock, which it waits for; the call returns (lastrowid, False).
\* When the wait times out the handler rolls back and raises.
InsertDocument(c) ==
  /\ pc = "idle"
  /\ conns[c].inserting # <<>>
  /\ LET doc == conns[c].inserting[1]
     IN  /\ documents' =
              IF WriteLockFree(c)
              THEN Append(documents,
                     [id |-> Len(documents) + 1, file_hash |-> Md5(doc.bytes),
                      content_hash |-> Md5(doc.content),
                      original_path |-> doc.file_path,
                      upload_date |-> clock, status |-> "pending"])
              ELSE documents
         /\ last' = [NoCall EXCEPT !.op = "store_document", !.impl = "db",
                       !.bytes = doc.bytes, !.text = doc.content,
                       !.raised = ~WriteLockFree(c),
                       !.id = IF WriteLockFree(c) THEN Len(documents) + 1 ELSE NULL,
                       !.nDocuments = Len(documents),
                       !.nTranslations = Len(translations),
                       !.nSegments = Len(segments)]
  /\ conns' = [conns EXCEPT ![c].inserting = <<>>]
  /\ UNCHANGED <<translations, segments, clock, build, licence, caches, pc, td>>

\* ------------------------------------------------------- licence checks
\* MachineLock.install_on_new_machine(authorization_code).
InstallOnNewMachine(code, writeOk) ==
  LET r == InstallOnNewMachineResult(valid_auth_codes, code, writeOk)
  IN /\ pc = "idle"
     /\ valid_auth_codes' = r.codes
     /\ lock_file' = IF r.wrote THEN <<"encrypted", "machine_id">> ELSE lock_file
     /\ last' = [NoCall EXCEPT !.op = "install_on_new_machine", !.code = code,
                   !.raised = r.raised, !.ok = r.ok,
                   !.files = IF r.wrote THEN <<"lock_file">> ELSE <<>>]
     /\ UNCHANGED <<documents, translations, segments, clock, build, credentials,
                    caches, pc, td, conns>>

\* A caller's load_model(lang_pair).
LoadModel(lang_pair, tokenizerOk, modelOk) ==
  LET r == LoadModelResult(models, tokenizers, lang_pair, tokenizerOk, modelOk)
  IN /\ pc = "idle"
     /\ models' = r.models
     /\ tokenizers' = r.tokenizers
     /\ last' = [NoCall EXCEPT !.op = "load_model", !.impl = "tm",
                   !.lang_pair = lang_pair, !.raised = r.raised, !.loaded = r.loaded]
     /\ UNCHANGED <<documents, translations, segments, clock, build, licence, pc, td,
                    conns>>

\* CredentialManager.check_credentials(username, password).
CheckCredentials(username, password) ==
  /\ pc = "idle"
  /\ last' = [NoCall EXCEPT !.op = "check_credentials", !.username = username,
                !.password = password,
                !.ret = CheckCredentialsResult(credentials, username, password, clock),
                !.ok = CheckCredentialsResult(credentials, username, password, clock)[1]]
  /\ UNCHANGED <<documents, translations, segments, clock, build, licence, caches,
                 pc, td, conns>>

\* CredentialManager.extend_license(username, days).
ExtendLicense(username, days, saveOk) ==
  LET r == ExtendLicenseResult(credentials, username, days, clock, saveOk)
  IN /\ pc = "idle"
     /\ \A i \in 1 .. Len(r.credentials) :
          r.credentials[i].expiration <= LicenseDays + MaxClock + MaxExtension
     /\ credentials' = r.credentials
     /\ last' = [NoCall EXCEPT !.op = "extend_license", !.username = username,
                   !.days = days, !.ok = r.ok]
     /\ UNCHANGED <<documents, translations, segments, clock, build, valid_auth_codes,
                    lock_file, caches, pc, td, conns>>

\* The days of one licence pass.
LicencePeriodPasses ==
  /\ clock <= MaxClock
  /\ clock' = clock + LicenseDays
  /\ UNCHANGED <<documents, translations, segments, build, licence, caches, pc, td,
                 last, conns>>

\* ------------------------------------------------------- specifications
\* The store driven directly: documents are registered and translations of
\* them stored, in any order.
StoredText == CleanTranslation(ModelDecode(Ab, "fr-en"))

NextStore ==
  \/ \E f \in Paths, b \in FileBytes, c \in {Ab, Cd}, ok \in BOOLEAN :
       StoreDocument(f, b, c, ok)
  \/ \E in \in {<<NULL, "fr-en">>, <<1, "fr-en">>, <<1, "en-fr">>, <<2, "fr-en">>},
        ok \in BOOLEAN :
       StoreTranslation(in[1], in[2], StoredText, <<>>, ok)

SpecStore == Init /\ [][NextStore]_vars

\* Ad-hoc translation: translate() called with any text, as time passes.
NextAdhoc ==
  \/ Tick
  \/ \E t \in AdhocTexts, l \in {"fr-en", "de-en"}, extOk \in BOOLEAN, dbOk \in BOOLEAN :
       Translate(t, l, extOk, dbOk)

SpecAdhoc == Init /\ [][NextAdhoc]_vars

\* Document translation by either manager.
NextDocument ==
  \/ \E m \in {"tm", "gui"}, b \in {"bytes1", NoFile}, c \in Contents,
        l \in {"fr-en", "de-en"}, ok \in BOOLEAN :
       BeginTranslateDocument(m, "a.md", b, c, l, ok)
  \/ \E extOk \in BOOLEAN, dbOk \in BOOLEAN : TmSegment(extOk, dbOk)
  \/ \E extOk \in BOOLEAN : GuiSegment(extOk)
  \/ \E ok \in BOOLEAN : FinishTranslateDocument(ok)

SpecDocument == Init /\ [][NextDocument]_vars

\* The segment store driven directly: a document registered, translations
\* stored with their pairs, completely or up to a failing statement, lookups
\* and statistics.
PairOf(text) == <<text, StoredText>>

SegmentPairs ==
  {<<<<PairOf(Long20H)>>, "fr-en">>, <<<<PairOf(Long20H)>>, "en-fr">>,
   <<<<PairOf(Long21H)>>, "fr-en">>, <<<<PairOf(Ab)>>, "fr-en">>,
   <<<<PairOf(Long20H), PairOf(Long20H)>>, "fr-en">>}

ManyPairs == [k \in 1 .. SegmentLimit |-> PairOf(Long20J)]

NextSegments ==
  \/ Tick
  \/ documents = <<>> /\ StoreDocument("a.md", "bytes1", Ab, TRUE)
  \/ \E in \in SegmentPairs :
       Len(translations) < MaxPairStores /\ StoreTranslation(1, in[2], StoredText, in[1], TRUE)
  \/ \E failAt \in 0 .. 3 :
       StoreTranslationFails(1, "fr-en", StoredText,
                             <<PairOf(Long20H), PairOf(Long20H)>>, failAt)
  \/ StoreManySegments(1, "fr-en", StoredText, ManyPairs)
  \/ StoreOverLimit(1, "fr-en", StoredText, <<PairOf(Long20H)>>)
  \/ \E l \in {"fr-en", "en-fr"} : FindMatchingSegmentsCall(Long20H, l, FALSE)
  \/ GetStatistics(FALSE)

SpecSegments == Init /\ [][NextSegments]_vars

\* Two managers on one database file, each with its own connection, storing
\* translations at the same time: the statements of their calls interleave.
NextWriters ==
  \/ \E c \in Connections, in \in {<<1, "fr-en">>, <<1, "en-fr">>, <<2, "fr-en">>} :
       InsertTranslation(c, in[1], in[2], StoredText)
  \/ \E c \in Connections : CommitTranslation(c)
  \/ \E c \in Connections : RollbackTranslation(c)

SpecWriters == Init /\ [][NextWriters]_vars

\* The store read while files come and go and after the connection is
\* closed: two documents are registered at their paths, then the files at
\* these paths are as the caller of a read finds them.
FilesFound ==
  {[f \in {"a.md", "b.md"} |-> IF f = "a.md" THEN a ELSE b] :
     a \in {TextFile(Ab), MissingFile}, b \in {TextFile(Ab), MissingFile, UndecodableFile}}

NextReads ==
  \/ Tick
  \/ \E in \in {<<"a.md", "bytes1", Ab>>, <<"b.md", "bytes2", Cd>>}, ok \in BOOLEAN :
       StoreDocument(in[1], in[2], in[3], ok /\ ~conns[1].closed)
  \/ \E ok \in BOOLEAN :
       StoreTranslation(1, "fr-en", StoredText, <<PairOf(Long20H)>>, ok /\ ~conns[1].closed)
  \/ \E files \in FilesFound, fault \in BOOLEAN : FindSimilarDocumentsCall(Ab, files, fault)
  \/ \E fault \in BOOLEAN : FindMatchingSegmentsCall(Long20H, "fr-en", fault)
  \/ \E fault \in BOOLEAN : GetStatistics(fault)
  \/ Close
  \/ \E gpuOk \in BOOLEAN : Cleanup(gpuOk)

SpecReads == Init /\ [][NextReads]_vars

\* The life of the store: every operation that touches it, of the store
\* itself and of both managers, in any order.
NextLifecycle ==
  \/ Tick
  \/ \E in \in {<<"a.md", "bytes1", Ab>>, <<"b.md", "bytes2", Cd>>,
                <<"c.md", NoFile, Ab>>}, ok \in BOOLEAN :
       StoreDocument(in[1], in[2], in[3], ok)
  \/ StoreTranslation(1, "fr-en", StoredText, <<PairOf(Ab)>>, TRUE)
  \/ StoreTranslationFails(1, "fr-en", StoredText, <<PairOf(Ab)>>, 1)
  \/ FindMatchingSegmentsCall(Ab, "fr-en", FALSE)
  \/ FindSimilarDocumentsCall(Ab, [f \in {"a.md", "b.md"} |-> TextFile(Ab)], FALSE)
  \/ GetStatistics(FALSE)
  \/ \E fault \in BOOLEAN : GetTranslationHistory(fault)
  \/ \E extOk \in BOOLEAN : Translate(Ab, "fr-en", extOk, TRUE)
  \/ \E m \in {"tm", "gui"}, in \in {<<"a.md", "bytes1">>, <<"c.md", NoFile>>} :
       BeginTranslateDocument(m, in[1], in[2], Ab, "fr-en", TRUE)
  \/ TmSegment(TRUE, TRUE)
  \/ GuiSegment(TRUE)
  \/ \E ok \in BOOLEAN : FinishTranslateDocument(ok)

SpecLifecycle == Init /\ [][NextLifecycle]_vars

\* Documents in which a sentence comes twice, translated by either manager.
NextRepeat ==
  \/ \E m \in {"tm", "gui"}, c \in {Ab \o <<" ">> \o Ab, Ab \o <<" ">> \o Cd \o <<" ">> \o Ab},
        ok \in BOOLEAN :
       BeginTranslateDocument(m, "a.md", "bytes1", c, "fr-en", ok)
  \/ \E extOk \in BOOLEAN, dbOk \in BOOLEAN : TmSegment(extOk, dbOk)
  \/ \E extOk \in BOOLEAN : GuiSegment(extOk)
  \/ \E ok \in BOOLEAN : FinishTranslateDocument(ok)

SpecRepeat == Init /\ [][NextRepeat]_vars

\* Two managers on one database file registering documents at the same
\* time: the SELECT and the INSERT of their store_document calls interleave.
NextRegistrations ==
  \/ Tick
  \/ \E c \in Connections, in \in {<<"a.md", "bytes1", Ab>>, <<"b.md", "bytes2", Cd>>} :
       LookupDocument(c, in[1], in[2], in[3])
  \/ \E c \in Connections : InsertDocument(c)

SpecRegistrations == Init /\ [][NextRegistrations]_vars

\* Authorization codes offered to one MachineLock, valid and not, each with
\* a lock file that can or cannot be written.
NextMachineLock ==
  \E code \in {"INSTALL-123456", "SETUP-ABCDEF", "AUTH-XYZQWE",
               "ST24-KAPPA-X7M4NUNLOCK-MNBVCX", "ST24-KAPPA-X7M4N", "UNLOCK-MNBVCX", ""},
     writeOk \in BOOLEAN :
    InstallOnNewMachine(code, writeOk)

SpecMachineLock == Init /\ [][NextMachineLock]_vars

\* Logins and licence extensions while time passes, by a day and by the
\* length of a licence.
NextLicence ==
  \/ Tick
  \/ LicencePeriodPasses
  \/ \E username \in {"admin", "jyga", "nobody"}, password \in {"password123", "jygatech"} :
       CheckCredentials(username, password)
  \/ \E username \in {"admin", "nobody"}, days \in {-1, 0, 1}, saveOk \in BOOLEAN :
       ExtendLicense(username, days, saveOk)

SpecLicence == Init /\ [][NextLicence]_vars

\* One manager between construction and cleanup: models loaded on request
\* and by translate(), with loads that fail, and cleanups.
NextModels ==
  \/ \E lang_pair \in {"fr-en", "en-fr", "es-en", "de-en"}, tokenizerOk, modelOk \in BOOLEAN :
       LoadModel(lang_pair, tokenizerOk, modelOk)
  \/ \E extOk \in BOOLEAN : Translate(Ab, "fr-en", extOk, TRUE)
  \/ \E gpuOk \in BOOLEAN : Cleanup(gpuOk)

SpecModels == Init /\ [][NextModels]_vars

\* The contents split into segments: every text of up to MaxContentLen
\* characters of the five kinds the separators tell apart, and the example
\* of a three-segment content, each split once from the initial state.
ShortContents ==
  UNION {[1 .. n -> {"A", "a", ".", " ", "\n"}] : n \in 0 .. MaxContentLen}

ExampleContent ==
  <<"H", "e", "l", "l", "o", " ", "w", "o", "r", "l", "d", ".", " ", "T",
  "h", "i", "s", " ", "i", "s", " ", "a", " ", "t", "e", "s", "t", ".",
  "\n", "N", "e", "w", " ", "l", "i", "n", "e", " ", "h", "e", "r", "e",
  ".">>

NextSplit ==
  /\ last.op = "none"
  /\ \E content \in ShortContents \cup {ExampleContent} :
       SplitIntoSegmentsCall(content)

SpecSplit == Init /\ [][NextSplit]_vars

\* The similarity of every two texts of up to MaxTextLen letters, each
\* computed once from the initial state.
ShortTexts == UNION {[1 .. n -> {"a", "b", "c"}] : n \in 0 .. MaxTextLen}

NextSimilarity ==
  /\ last.op = "none"
  /\ \E a \in ShortTexts, b \in ShortTexts : SimilarityCall(a, b)

SpecSimilarity == Init /\ [][NextSimilarity]_vars

\* Reuse around the cutoff: both managers on three texts that are close to
\* one another, as ad-hoc texts and as one-sentence documents.
NextReuse ==
  \/ \E t \in {Long20H, Long20J, Long21H}, extOk \in BOOLEAN, dbOk \in BOOLEAN :
       Translate(t, "fr-en", extOk, dbOk)
  \/ \E m \in {"tm", "gui"}, c \in {Long20J, Long21H}, ok \in BOOLEAN :
       BeginTranslateDocument(m, "a.md", "bytes1", c, "fr-en", ok)
  \/ \E extOk \in BOOLEAN, dbOk \in BOOLEAN : TmSegment(extOk, dbOk)
  \/ \E extOk \in BOOLEAN : GuiSegment(extOk)
  \/ \E ok \in BOOLEAN : FinishTranslateDocument(ok)

SpecReuse == Init /\ [][NextReuse]_vars

\* ------------------------------------------------- properties of the store
\* C1, as the specification states it: for every registered document D and
\* language pair L, the versions of the (D, L) translation rows are exactly
\* 1..N, N being the number of those rows, whatever other language pairs of D
\* were stored in between.
VersionsPerLanguagePair ==
  \A i \in 1 .. Len(documents), l \in {"fr-en", "en-fr"} :
    LET rows == {k \in 1 .. Len(translations) :
                   /\ translations[k].document_id = documents[i].id
                   /\ translations[k].lang_pair = l}
    IN  {translations[k].version : k \in rows} = 1 .. Cardinality(rows)

\* C1, as the code has it: the counter belongs to the document.  The k-th
\* translation row stored for a document, all language pairs together, has
\* version k; so the versions of one language pair of the document increase
\* in the order of the calls without a repeat, and leave out the versions
\* other language pairs took in between.
VersionsPerDocument ==
  /\ \A k \in 1 .. Len(translations) :
       translations[k].document_id # NULL =>
         translations[k].version =
           Cardinality({j \in 1 .. k :
                          translations[j].document_id = translations[k].document_id})
  /\ \A j \in 1 .. Len(translations), k \in 1 .. Len(translations) :
       /\ j < k
       /\ translations[j].document_id # NULL
       /\ translations[j].document_id = translations[k].document_id
       /\ translations[j].lang_pair = translations[k].lang_pair
       => translations[j].version < translations[k].version

\* A registered document with a fr-en, an en-fr and another fr-en translation
\* stored in that order: its fr-en rows have versions 1 and 3.
VersionsPerDocumentWitness ==
  \E d \in 1 .. Len(documents) :
    \E i \in 1 .. Len(translations), j \in 1 .. Len(translations),
       k \in 1 .. Len(translations) :
      /\ i < j /\ j < k
      /\ translations[i].document_id = documents[d].id
      /\ translations[j].document_id = documents[d].id
      /\ translations[k].document_id = documents[d].id
      /\ translations[i].lang_pair = "fr-en"
      /\ translations[j].lang_pair = "en-fr"
      /\ translations[k].lang_pair = "fr-en"
      /\ translations[i].version = 1
      /\ translations[k].version = 3

\* C2: no step changes or removes a translation row; a row a step adds for a
\* document gets 1 + the greatest version stored for that document (1 when
\* there is none); hence the versions of a document's rows, all language
\* pairs together, are pairwise distinct.  Stated for every document id, a
\* registered one in particular.
VersionInvariant ==
  [][/\ Len(translations') >= Len(translations)
     /\ \A k \in 1 .. Len(translations) : translations'[k] = translations[k]
     /\ \A k \in Len(translations) + 1 .. Len(translations') :
          translations'[k].document_id # NULL =>
            LET vs == {translations'[j].version :
                         j \in {n \in 1 .. k - 1 :
                                  translations'[n].document_id
                                    = translations'[k].document_id}}
            IN  translations'[k].version = IF vs = {} THEN 1 ELSE 1 + Max(vs)
     /\ \A j \in 1 .. Len(translations'), k \in 1 .. Len(translations') :
          /\ j # k
          /\ translations'[j].document_id # NULL
          /\ translations'[j].document_id = translations'[k].document_id
          => translations'[j].version # translations'[k].version
    ]_vars

\* A registered document with two translation rows of different language
\* pairs, the later one numbered right after the earlier one.
VersionInvariantWitness ==
  \E d \in 1 .. Len(documents) :
    \E j \in 1 .. Len(translations), k \in 1 .. Len(translations) :
      /\ j < k
      /\ translations[j].document_id = documents[d].id
      /\ translations[k].document_id = documents[d].id
      /\ translations[j].lang_pair # translations[k].lang_pair
      /\ translations[k].version = translations[j].version + 1

\* C3: when store_document has returned for some file bytes and text and the
\* next call is store_document with the same bytes and the same text, that
\* call returns the same id, reports that the document existed, and leaves
\* the documents table as it was.
DedupIdempotence ==
  [][(/\ last.op = "store_document" /\ ~last.raised
      /\ last'.op = "store_document" /\ ~last'.raised
      /\ last'.bytes = last.bytes
      /\ last'.text = last.text)
     => (/\ last'.id = last.id
         /\ last'.existed
         /\ documents' = documents)
    ]_vars

\* store_document has just found the row whose two hashes are those of the
\* submission: the submission is a repeated one.
DedupIdempotenceWitness ==
  /\ last.op = "store_document" /\ ~last.raised /\ last.existed
  /\ Len(documents) = last.nDocuments
  /\ \E i \in 1 .. Len(documents) :
       /\ documents[i].id = last.id
       /\ documents[i].file_hash = Md5(last.bytes)
       /\ documents[i].content_hash = Md5(last.text)

\* C4: no two rows of documents share a content hash or a file hash; and
\* when store_document has just returned, either a row that was there before
\* the call matches the submission by content hash or by file hash, the
\* call returned the id of such a row with existed true and added nothing,
\* or no row matched, and the call added one row with status 'pending' and
\* the submission's hashes and returned its new id with existed false.
DocumentUniqueness ==
  /\ \A i \in 1 .. Len(documents), j \in 1 .. Len(documents) :
       i # j => /\ documents[i].content_hash # documents[j].content_hash
                /\ documents[i].file_hash # documents[j].file_hash
                /\ documents[i].id # documents[j].id
  /\ (last.op = "store_document" /\ ~last.raised) =>
       LET matching == {i \in 1 .. last.nDocuments :
                          \/ documents[i].content_hash = Md5(last.text)
                          \/ documents[i].file_hash = Md5(last.bytes)}
       IN  IF matching # {}
           THEN /\ last.existed
                /\ last.id \in {documents[i].id : i \in matching}
                /\ Len(documents) = last.nDocuments
           ELSE /\ ~last.existed
                /\ Len(documents) = last.nDocuments + 1
                /\ documents[Len(documents)].id = last.id
                /\ documents[Len(documents)].status = "pending"
                /\ documents[Len(documents)].content_hash = Md5(last.text)
                /\ documents[Len(documents)].file_hash = Md5(last.bytes)

\* With two documents registered, store_document has just returned the id of
\* a row that shares only one of its two hashes with the submission.
DocumentUniquenessWitness ==
  /\ last.op = "store_document" /\ ~last.raised /\ last.existed
  /\ Len(documents) = 2
  /\ \E i \in 1 .. Len(documents) :
       /\ documents[i].id = last.id
       /\ (documents[i].file_hash = Md5(last.bytes))
            # (documents[i].content_hash = Md5(last.text))

\* --------------------------------------------- properties of translation
\* C5: whenever a segment or text was looked up and the best match
\* find_matching_segments gave is above the cutoff of 0.95, the turn
\* returned that match's stored translation as it is and did not call the
\* model.  Holds of translate() and of gui_app's loop alike.
ReuseShortCircuit ==
  \A log \in {last.log, td.log} :
    \A k \in 1 .. Len(log) :
      (log[k].looked /\ RatioGT(log[k].similarity, 19, 20)) =>
        /\ log[k].kind = "reused"
        /\ log[k].ret = log[k].matched
        /\ log[k].ext = 0
        /\ ~log[k].wrote

\* gui_app's translate_document has ended with a segment answered from a
\* stored segment whose text is close to it and not equal (ratio 40/41).
ReuseShortCircuitWitness ==
  /\ last.op = "translate_document" /\ last.impl = "gui" /\ ~last.raised
  /\ \E k \in 1 .. Len(last.log) :
       /\ last.log[k].kind = "reused"
       /\ last.log[k].similarity = <<40, 41>>
       /\ last.log[k].ret = last.log[k].matched
       /\ last.log[k].ret # <<>>

\* C6, as the specification states it: a best match of similarity exactly
\* 0.95 is reused without a call of the model, and a best match below 0.95
\* is not reused.
ThresholdInclusive ==
  \A log \in {last.log, td.log} :
    \A k \in 1 .. Len(log) :
      log[k].looked =>
        /\ log[k].similarity[1] * 20 = 19 * log[k].similarity[2] =>
             (log[k].kind = "reused" /\ log[k].ext = 0)
        /\ log[k].similarity[1] * 20 < 19 * log[k].similarity[2] =>
             log[k].kind # "reused"

\* C6, as the code has it: the comparison is strict.  A turn reuses the best
\* match exactly when its similarity is greater than 0.95; at exactly 0.95,
\* as below it, the turn goes on to a fresh translation, which calls the
\* model unless the language pair has none.
ThresholdExclusive ==
  \A log \in {last.log, td.log} :
    \A k \in 1 .. Len(log) :
      log[k].looked =>
        /\ log[k].kind = "reused" <=> RatioGT(log[k].similarity, 19, 20)
        /\ log[k].similarity[1] * 20 <= 19 * log[k].similarity[2] =>
             /\ log[k].kind \in {"fresh", "degraded", "failed", "store_failed",
                                 "unsupported", "passthrough"}
             /\ log[k].kind \in {"fresh", "degraded", "failed", "store_failed"}
                  => log[k].ext = 1

\* A text whose best stored match has similarity 38/40, exactly 0.95, was
\* translated afresh by the model.
ThresholdExclusiveWitness ==
  \E k \in 1 .. Len(last.log) :
    /\ last.log[k].looked
    /\ last.log[k].similarity = <<38, 40>>
    /\ last.log[k].kind = "fresh"
    /\ last.log[k].ext = 1

\* C7: translate() of a text that is empty, all whitespace or without any
\* alphanumeric character returns the text, does not call the model and
\* writes nothing to the store.
PassthroughOnSymbolicInput ==
  (/\ last.op = "translate"
   /\ \A k \in 1 .. Len(last.text) : ~IsAlnum(last.text[k]))
  => /\ ~last.raised
     /\ last.ret = last.text
     /\ last.log[1].ext = 0
     /\ ~last.log[1].wrote
     /\ Len(translations) = last.nTranslations
     /\ Len(segments) = last.nSegments

\* C8: a translate_document call during which the model failed on a segment
\* has raised, and none of the translation rows added since it began is a
\* row of its document.
ExternalFailurePropagates ==
  (/\ pc = "idle"
   /\ last.op = "translate_document"
   /\ \E k \in 1 .. Len(last.log) : last.log[k].extFailed)
  => /\ last.raised
     /\ \A k \in last.nTranslations + 1 .. Len(translations) :
          translations[k].document_id # last.document_id

\* C9: a translate_document call that raised has left the translations and
\* segments tables with the rows they had when it began, and one that
\* returned has stored a translation row of its document.
AllOrNothing ==
  (pc = "idle" /\ last.op = "translate_document") =>
     IF last.raised
     THEN /\ Len(translations) = last.nTranslations
          /\ Len(segments) = last.nSegments
     ELSE \E k \in last.nTranslations + 1 .. Len(translations) :
            /\ translations[k].document_id = last.document_id
            /\ translations[k].translated_content = last.ret

\* C10: a translate(text, lang_pair) call during which the model failed, or
\* could not be loaded for the language pair, has not raised and has
\* returned text.
GracefulDegradation ==
  (/\ last.op = "translate"
   /\ last.log[1].extFailed \/ last.log[1].kind = "unsupported")
  => /\ ~last.raised
     /\ last.ret = last.text
     /\ Len(translations) = last.nTranslations
     /\ Len(segments) = last.nSegments

\* translate() of a text with letters has called the model, which failed.
GracefulDegradationWitness ==
  /\ last.op = "translate"
  /\ last.log[1].extFailed
  /\ last.log[1].ext = 1
  /\ last.text = Long20H
  /\ last.ret = Long20H

\* C11: a translate or translate_document call that needs a translation for
\* a language pair outside the supported ones raises to its caller, without
\* a call of the model, without a write, and without trying the pair again
\* on a later segment.
UnsupportedPairFailsFast ==
  (/\ pc = "idle"
   /\ last.op \in {"translate", "translate_document"}
   /\ last.lang_pair \notin SupportedPairs
   /\ \E k \in 1 .. Len(last.log) : last.log[k].kind = "unsupported")
  => /\ last.raised
     /\ Cardinality({k \in 1 .. Len(last.log) : last.log[k].kind = "unsupported"}) = 1
     /\ \A k \in 1 .. Len(last.log) : last.log[k].ext = 0
     /\ Len(translations) = last.nTranslations
     /\ Len(segments) = last.nSegments

\* C13: a translate_document call on a document of N segments reports
\* floor(100 * i / N) as its i-th value; a call that returned has reported
\* N values; and a value is reported after its segment, so a call that
\* raised on a segment has reported one value per segment it had finished.
ProgressAfterEachSegment ==
  (pc = "idle" /\ last.op = "translate_document") =>
    LET N == Len(SplitIntoSegments(last.text))
    IN  /\ \A i \in 1 .. Len(last.progress) : last.progress[i] = (100 * i) \div N
        /\ ~last.raised => Len(last.progress) = N
        /\ (last.raised /\ Len(last.log) >= 1 /\ Len(last.log) < N)
             => Len(last.progress) = Len(last.log) - 1

\* ------------------------------------------ properties of the segment store
\* C12: store_translation is transactional.  A call that raises, whichever
\* of its statements failed, leaves translations and segments as they were;
\* a call that returns has added its translation row, under the id it
\* returned, and one segment row for each of its pairs, in order, behind
\* the rows that were there.
StoreTranslationTransactional ==
  [][(last'.op = "store_translation" /\ clock' = clock) =>
       IF last'.raised
       THEN translations' = translations /\ segments' = segments
       ELSE /\ Len(translations') = Len(translations) + 1
            /\ SubSeq(translations', 1, Len(translations)) = translations
            /\ translations'[Len(translations')].id = last'.id
            /\ translations'[Len(translations')].lang_pair = last'.lang_pair
            /\ Len(segments') = Len(segments) + Len(last'.pairs)
            /\ SubSeq(segments', 1, Len(segments)) = segments
            /\ \A k \in 1 .. Len(last'.pairs) :
                 /\ segments'[Len(segments) + k].source_text = last'.pairs[k][1]
                 /\ segments'[Len(segments) + k].translated_text = last'.pairs[k][2]
                 /\ segments'[Len(segments) + k].lang_pair = last'.lang_pair]_vars

\* A call with two pairs has raised on a store that holds rows, and the
\* tables are what they were when it began.
StoreTranslationTransactionalWitness ==
  /\ last.op = "store_translation"
  /\ last.raised
  /\ Len(last.pairs) = 2
  /\ last.nSegments > 0
  /\ Len(translations) = last.nTranslations
  /\ Len(segments) = last.nSegments

\* C15: what find_matching_segments returns.  Every entry is a stored row of
\* the language pair asked for, with that row's texts and its similarity to
\* the query, which is at least 0.9; no row comes twice and there are at
\* most 100 entries.  The rows considered are the 100 most recently used of
\* the language pair: an entry has fewer than 100 rows used after it, a row
\* of sufficient similarity that is left out has at least 100 others used
\* no earlier than it and was used no later than any entry.  The entries
\* are in descending order of similarity, those of equal similarity the
\* most recently used first.
FindMatchingSegmentsResult ==
  (last.op = "find_matching_segments" /\ ~last.raised) =>
    LET ret == last.ret
        P == {i \in 1 .. Len(segments) : segments[i].lang_pair = last.lang_pair}
        R == {ret[k].rowid : k \in 1 .. Len(ret)}
        Sim(i) == Similarity(last.text, segments[i].source_text)
        UsedAfter(i) == {j \in P : segments[j].last_used > segments[i].last_used}
        UsedNoEarlier(i) ==
          {j \in P \ {i} : segments[j].last_used >= segments[i].last_used}
    IN  /\ R \subseteq P
        /\ Cardinality(R) = Len(ret)
        /\ Len(ret) <= SegmentLimit
        /\ \A k \in 1 .. Len(ret) :
             /\ ret[k].source = segments[ret[k].rowid].source_text
             /\ ret[k].translated = segments[ret[k].rowid].translated_text
             /\ ret[k].similarity = Sim(ret[k].rowid)
             /\ RatioGE(ret[k].similarity, 9, 10)
             /\ Cardinality(UsedAfter(ret[k].rowid)) < SegmentLimit
        /\ \A i \in P \ R :
             RatioGE(Sim(i), 9, 10) =>
               /\ Cardinality(UsedNoEarlier(i)) >= SegmentLimit
               /\ \A j \in R : segments[i].last_used <= segments[j].last_used
        /\ \A k \in 1 .. Len(ret) - 1 :
             /\ ret[k].similarity[1] * ret[k + 1].similarity[2]
                  >= ret[k + 1].similarity[1] * ret[k].similarity[2]
             /\ ret[k].similarity[1] * ret[k + 1].similarity[2]
                  = ret[k + 1].similarity[1] * ret[k].similarity[2]
                  => segments[ret[k].rowid].last_used
                       >= segments[ret[k + 1].rowid].last_used

\* A lookup over more than 100 rows of the language pair has returned 100
\* entries, the identical row first and rows of lower similarity behind it,
\* and has left out a row of sufficient similarity.
FindMatchingSegmentsResultWitness ==
  /\ last.op = "find_matching_segments"
  /\ ~last.raised
  /\ Len(last.ret) = SegmentLimit
  /\ RatioGE(last.ret[1].similarity, 1, 1)
  /\ ~RatioGE(last.ret[2].similarity, 1, 1)
  /\ \E i \in 1 .. Len(segments) :
       /\ segments[i].lang_pair = last.lang_pair
       /\ RatioGE(Similarity(last.text, segments[i].source_text), 9, 10)
       /\ \A k \in 1 .. Len(last.ret) : last.ret[k].rowid # i

\* C16: find_matching_segments is a pure read.  A call leaves every row of
\* documents, translations and segments as it was, usage_count and last_used
\* of the rows it matched included; and a step that changes a usage counter,
\* or the segment rows at all, is a store_translation.
FindMatchingSegmentsPureRead ==
  [][/\ (last'.op = "find_matching_segments" /\ clock' = clock) =>
          /\ documents' = documents
          /\ translations' = translations
          /\ segments' = segments
     /\ segments' # segments => last'.op = "store_translation"]_vars

\* A lookup has returned a stored row, whose usage counter is still the one
\* it was stored with.
FindMatchingSegmentsPureReadWitness ==
  /\ last.op = "find_matching_segments"
  /\ Len(last.ret) > 0
  /\ Len(segments) = 2
  /\ \A k \in 1 .. Len(last.ret) :
       /\ segments[last.ret[k].rowid].usage_count = last.ret[k].rowid
       /\ segments[last.ret[k].rowid].last_used < clock

\* C17: the usage counter of a segment row.  Each row store_translation
\* inserts gets one more than the largest usage_count of the rows already
\* stored with its source text's hash, whatever their language pair, and 1
\* when there is none, and its last_used is the time of the call; the rows
\* that were there are not modified.  So in every store the k-th row of a
\* source text has usage_count k.
SegmentUsageCounter ==
  [][/\ (last'.op = "store_translation" /\ clock' = clock /\ ~last'.raised) =>
          /\ SubSeq(segments', 1, Len(segments)) = segments
          /\ \A n \in Len(segments) + 1 .. Len(segments') :
               LET earlier == {segments'[j].usage_count :
                                 j \in {i \in 1 .. n - 1 :
                                          segments'[i].hash = segments'[n].hash}}
               IN  /\ segments'[n].hash = Md5(segments'[n].source_text)
                   /\ segments'[n].usage_count
                        = (IF earlier = {} THEN 0 ELSE Max(earlier)) + 1
                   /\ segments'[n].last_used = clock
     /\ \A n \in 1 .. Len(segments') :
          segments'[n].usage_count
            = Cardinality({i \in 1 .. n :
                             segments'[i].source_text = segments'[n].source_text})]_vars

\* The third row of a source text is stored, in another language pair than
\* the rows before it, and has usage_count 3 and the time of its call.
SegmentUsageCounterWitness ==
  /\ last.op = "store_translation"
  /\ ~last.raised
  /\ \E i, j \in 1 .. Len(segments) :
       /\ i < j
       /\ segments[i].source_text = segments[j].source_text
       /\ segments[i].lang_pair # segments[j].lang_pair
       /\ segments[j].usage_count = 3
       /\ segments[i].last_used < segments[j].last_used

\* C18: the statistics.  get_statistics returns as reuse_rate 100 times the
\* number of segment rows with usage_count above 1 over the number of all
\* segment rows, and 0 when there is no segment row; with three rows of
\* usage counts 2, 1, 1 that is 100/3.  total_documents and
\* total_translations are the numbers of rows of their tables.
ReuseRateStatistic ==
  (last.op = "get_statistics" /\ ~last.raised) =>
    LET rate == last.ret.reuse_rate
        reused == Cardinality({i \in 1 .. Len(segments) : segments[i].usage_count > 1})
    IN  /\ last.ret.total_documents = Len(documents)
        /\ last.ret.total_translations = Len(translations)
        /\ rate[2] > 0
        /\ Len(segments) = 0 => rate[1] = 0
        /\ Len(segments) > 0 => rate[1] * Len(segments) = 100 * reused * rate[2]
        /\ (/\ Len(segments) = 3
            /\ \E i \in 1 .. 3 :
                 /\ segments[i].usage_count = 2
                 /\ \A j \in (1 .. 3) \ {i} : segments[j].usage_count = 1)
             => rate[1] * 3 = 100 * rate[2]

\* The statistics of a store of three segment rows with usage counts 2, 1
\* and 1 are returned, the reuse rate being 100/3.
ReuseRateStatisticWitness ==
  /\ last.op = "get_statistics"
  /\ ~last.raised
  /\ Len(segments) = 3
  /\ Len(translations) = 2
  /\ \E i \in 1 .. 3 :
       /\ segments[i].usage_count = 2
       /\ \A j \in (1 .. 3) \ {i} : segments[j].usage_count = 1
  /\ last.ret.reuse_rate[1] * 3 = 100 * last.ret.reuse_rate[2]
  /\ last.ret.total_translations = 2
  /\ last.ret.total_documents = 1

\* -------------------------------------------- properties of concurrent use
\* C14: concurrent version assignment.  Whatever the interleaving of the
\* store_translation calls of two connections on one database, no two
\* translation rows of a document have the same version; the version is read
\* and the row inserted as one step: at most one connection has an
\* uncommitted row, and its version is the one the table gives at that
\* moment.
ConcurrentVersionAssignment ==
  /\ \A i, j \in 1 .. Len(translations) :
       (i # j /\ translations[i].document_id = translations[j].document_id)
         => translations[i].version # translations[j].version
  /\ \A c, d \in Connections :
       (conns[c].pending # <<>> /\ conns[d].pending # <<>>) => c = d
  /\ \A c \in Connections :
       conns[c].pending # <<>> =>
         conns[c].pending[1].version
           = NextVersion(translations, conns[c].pending[1].document_id)

\* One connection holds an uncommitted second translation of a document
\* while the other connection's call was refused the lock.
ConcurrentVersionAssignmentWitness ==
  \E c, d \in Connections :
    /\ c # d
    /\ conns[d].busy
    /\ conns[c].pending # <<>>
    /\ conns[c].pending[1].version = 2
    /\ \E i \in 1 .. Len(translations) :
         translations[i].document_id = conns[c].pending[1].document_id

\* ------------------------------------------------- properties of the reads
\* C19: find_similar_documents tolerates unreadable documents.  When the
\* store can be read, the result holds exactly the registered documents
\* whose file exists, can be read and is similar to the content by 0.8 or
\* more, in descending order of similarity; a document whose file is
\* missing or cannot be read or decoded is left out and does not keep the
\* others from being returned.
UnreadableDocumentsSkipped ==
  (last.op = "find_similar_documents" /\ ~last.raised /\ ~last.fault
     /\ Len(documents) <= DocumentLimit) =>
    LET File(i) == last.files[documents[i].original_path]
        similar == {i \in 1 .. Len(documents) :
                      /\ File(i).exists
                      /\ File(i).decodes
                      /\ RatioGE(Similarity(last.text, File(i).text), 8, 10)}
    IN  /\ {last.ret[k].doc_id : k \in 1 .. Len(last.ret)}
             = {documents[i].id : i \in similar}
        /\ Len(last.ret) = Cardinality(similar)
        /\ \A k \in 1 .. Len(last.ret) - 1 :
             last.ret[k].similarity[1] * last.ret[k + 1].similarity[2]
               >= last.ret[k + 1].similarity[1] * last.ret[k].similarity[2]

\* C20: reads degrade instead of raising.  find_similar_documents and
\* find_matching_segments return the empty list and get_statistics the
\* all-zero record whenever the store cannot be read, after close()
\* included, and none of them raises; store_document and store_translation
\* raise in that situation.
ReadsDegrade ==
  LET unreadable == conns[1].closed \/ last.fault
  IN  /\ last.op \in {"find_similar_documents", "find_matching_segments", "get_statistics"}
           => ~last.raised
      /\ (unreadable /\ last.op \in {"find_similar_documents", "find_matching_segments"})
           => last.ret = <<>>
      /\ (unreadable /\ last.op = "get_statistics") => last.ret = NoStatistics
      /\ (conns[1].closed /\ last.op \in {"store_document", "store_translation"})
           => last.raised

\* C21: close() is idempotent and never raises.  Every call of close(), on
\* an open or on a closed connection, returns normally, leaves the
\* connection closed and the tables as they were; cleanup(), which calls it,
\* returns normally too; and a closed connection stays closed.
CloseIdempotent ==
  [][/\ (last'.op = "close" /\ clock' = clock) =>
          /\ ~last'.raised
          /\ conns'[1].closed
          /\ <<documents', translations', segments'>> = <<documents, translations, segments>>
     /\ (last'.op = "cleanup" /\ clock' = clock) => ~last'.raised
     /\ conns[1].closed => conns'[1].closed]_vars

\* close() has been called on a connection that was closed already, and
\* has returned normally.
CloseIdempotentWitness ==
  /\ last.op = "close"
  /\ last.wasClosed
  /\ ~last.raised
  /\ conns[1].closed

\* --------------------------------------- properties of translate_document
\* C22: source order is preserved.  A translate_document call that returns
\* has handled the segments the segmenter gives for its content one by one
\* in their order, has returned the outputs of these turns joined by
\* newlines in that order, and the last rows of segments, written by its
\* final store_translation, are the (source, translated) pairs in the same
\* order, owned by the document.
SourceOrderPreserved ==
  (pc = "idle" /\ last.op = "translate_document" /\ ~last.raised) =>
    LET segs == SplitIntoSegments(last.text)
        N == Len(segs)
    IN  /\ Len(last.log) = N
        /\ \A k \in 1 .. N : last.log[k].segment = segs[k]
        /\ last.ret = JoinLines([k \in 1 .. N |-> last.log[k].ret])
        /\ Len(segments) >= N
        /\ \A k \in 1 .. N :
             /\ segments[Len(segments) - N + k].source_text = segs[k]
             /\ segments[Len(segments) - N + k].translated_text = last.log[k].ret
             /\ segments[Len(segments) - N + k].document_id = last.document_id
             /\ segments[Len(segments) - N + k].id = Len(segments) - N + k

\* A document of two different segments has been translated into two
\* different outputs and stored.
SourceOrderPreservedWitness ==
  /\ pc = "idle"
  /\ last.op = "translate_document"
  /\ ~last.raised
  /\ Len(last.log) = 2
  /\ last.log[1].segment # last.log[2].segment
  /\ last.log[1].ret # last.log[2].ret
  /\ last.log[1].kind = "fresh"
  /\ last.log[2].kind = "fresh"

\* C23: the freshness window.  A translate_document call for a document that
\* existed already, of which a translation for the same language pair less
\* than 24 hours old was stored when the call began, returns that stored
\* translation, asks the model for nothing and adds no translation row.
FreshTranslationReturned ==
  (pc = "idle" /\ last.op = "translate_document" /\ ~last.raised /\ last.existed) =>
    LET recent == {k \in 1 .. last.nTranslations :
                     /\ translations[k].document_id = last.document_id
                     /\ translations[k].lang_pair = last.lang_pair
                     /\ clock - translations[k].translation_date < 1}
    IN  recent # {} =>
          /\ \E k \in recent : last.ret = translations[k].translated_content
          /\ \A i \in 1 .. Len(last.log) : last.log[i].ext = 0
          /\ Len(translations) = last.nTranslations

\* ------------------------------------------ properties of segment creation
\* C24, as the specification states it: every translate call that returns a
\* translation, reused from the store or freshly produced, for a text that
\* is not passed through, has added one segment row holding the text, the
\* translation returned and the language pair.
SegmentRowPerTranslateCall ==
  (pc = "idle" /\ last.op = "translate" /\ last.log[1].kind \in {"reused", "fresh"}) =>
    /\ Len(segments) = last.nSegments + 1
    /\ segments[Len(segments)].source_text = last.text
    /\ segments[Len(segments)].translated_text = last.ret
    /\ segments[Len(segments)].lang_pair = last.lang_pair

\* C24, as the program has it: a translate call that translates freshly adds
\* one segment row holding the text, the translation returned and the
\* language pair; a translate call that reuses a stored translation adds no
\* row.  A translate_document call that returns has added, by its final
\* store_translation, one segment row for every segment of the document,
\* whether its turn reused a translation or produced one.
SegmentRowPerTranslatedSegment ==
  /\ (pc = "idle" /\ last.op = "translate" /\ last.log[1].kind = "fresh") =>
       /\ Len(segments) = last.nSegments + 1
       /\ segments[Len(segments)].source_text = last.text
       /\ segments[Len(segments)].translated_text = last.ret
       /\ segments[Len(segments)].lang_pair = last.lang_pair
  /\ (pc = "idle" /\ last.op = "translate" /\ last.log[1].kind = "reused") =>
       /\ Len(segments) = last.nSegments
       /\ Len(translations) = last.nTranslations
  /\ (pc = "idle" /\ last.op = "translate_document" /\ ~last.raised) =>
       /\ Len(segments) >= last.nSegments + Len(last.log)
       /\ \A k \in 1 .. Len(last.log) :
            LET row == segments[Len(segments) - Len(last.log) + k]
            IN  /\ row.source_text = last.log[k].segment
                /\ row.translated_text = last.log[k].ret
                /\ row.lang_pair = last.lang_pair
                /\ row.document_id = last.document_id

\* A translate call has returned a stored translation of another text and
\* has added no row.
SegmentRowPerTranslatedSegmentWitness ==
  /\ pc = "idle"
  /\ last.op = "translate"
  /\ last.log[1].kind = "reused"
  /\ last.ret = last.log[1].matched
  /\ RatioGT(last.log[1].similarity, 19, 20)
  /\ ~RatioGE(last.log[1].similarity, 1, 1)
  /\ last.nSegments > 0
  /\ Len(segments) = last.nSegments

\* ------------------------------------------------ properties of similarity
\* C25, as the specification states it: the similarity of two texts lies in
\* [0, 1], is 1 when they are equal, and is the same in both directions.
SimilaritySymmetric ==
  last.op = "similarity" =>
    LET a == last.pairs[1][1]
        b == last.pairs[1][2]
    IN  /\ 0 <= last.ret[1] /\ last.ret[1] <= last.ret[2]
        /\ a = b => last.ret[1] = last.ret[2]
        /\ last.ret[1] * Ratio(b, a)[2] = Ratio(b, a)[1] * last.ret[2]

\* C25, as the program has it: the similarity of two texts lies in [0, 1]
\* and is 1 exactly when they are equal; it is twice the number of matched
\* elements over the sum of the lengths, and the matched elements, found
\* from the first text's side, are no more than the shorter text has.
SimilarityRatio ==
  last.op = "similarity" =>
    LET a == last.pairs[1][1]
        b == last.pairs[1][2]
    IN  /\ last.ret[2] > 0
        /\ 0 <= last.ret[1] /\ last.ret[1] <= last.ret[2]
        /\ a = b <=> last.ret[1] = last.ret[2]
        /\ Len(a) + Len(b) > 0 =>
             /\ last.ret[2] = Len(a) + Len(b)
             /\ last.ret[1] <= 2 * Min({Len(a), Len(b)})
             /\ last.ret[1] % 2 = 0

\* Two texts of one length whose similarity is not the same in the two
\* directions.
SimilarityRatioWitness ==
  /\ last.op = "similarity"
  /\ Len(last.pairs[1][1]) = Len(last.pairs[1][2])
  /\ last.ret[1] > 0
  /\ last.ret[1] < Ratio(last.pairs[1][2], last.pairs[1][1])[1]

\* ---------------------------------------------- properties of segmentation
\* Where the segments segs start in content c when laid on it in order from
\* position p with nothing but whitespace around them; a 0 when they cannot
\* be laid so.
RECURSIVE SegmentStarts(_, _, _)
SegmentStarts(c, segs, p) ==
  LET q == p + SpaceRun(c, p)
  IN  IF segs = <<>>
      THEN IF q > Len(c) THEN <<>> ELSE <<0>>
      ELSE IF /\ q + Len(Head(segs)) - 1 <= Len(c)
              /\ SubSeq(c, q, q + Len(Head(segs)) - 1) = Head(segs)
           THEN <<q>> \o SegmentStarts(c, Tail(segs), q + Len(Head(segs)))
           ELSE <<0>>

\* Position k of text s is followed by a split point: s[k] ends a sentence
\* and whitespace and an uppercase letter follow, or s[k] is a line break
\* and an uppercase letter follows, at once or after whitespace.
SplitPointAfter(s, k) ==
  LET w == SpaceRun(s, k + 1)
  IN  /\ k + 1 + w <= Len(s)
      /\ IsUpper(s[k + 1 + w])
      /\ \/ s[k] \in {".", "!", "?"} /\ w >= 1
         \/ s[k] = "\n"

\* C26: split_into_segments returns, in source order, only non-empty trimmed
\* segments that cover the content up to whitespace; a segment ends exactly
\* where '.', '!' or '?' is followed by whitespace and an uppercase letter
\* or a line break by an uppercase letter; the result depends on the content
\* alone; the example content yields its three sentences.
SegmentationContract ==
  last.op = "split_into_segments" =>
    LET c      == last.text
        segs   == last.ret
        starts == SegmentStarts(c, segs, 1)
    IN  /\ \A i \in 1 .. Len(segs) : segs[i] # <<>> /\ Strip(segs[i]) = segs[i]
        /\ Len(starts) = Len(segs)
        /\ \A i \in 1 .. Len(starts) : starts[i] > 0
        /\ \A i \in 2 .. Len(segs) :
             \E k \in starts[i - 1] + Len(segs[i - 1]) - 1 .. starts[i] - 1 :
               /\ SplitPointAfter(c, k)
               /\ k + 1 + SpaceRun(c, k + 1) = starts[i]
        /\ \A i \in 1 .. Len(segs) :
             \A k \in 1 .. Len(segs[i]) - 1 : ~SplitPointAfter(segs[i], k)
        /\ segs = SplitIntoSegments(c)
        /\ c = ExampleContent =>
             segs = <<SubSeq(c, 1, 12), SubSeq(c, 14, 28), SubSeq(c, 30, 43)>>

\* The example content was split into its three sentences, the second cut
\* off after a full stop and the third after a line break.
SegmentationContractWitness ==
  /\ last.op = "split_into_segments"
  /\ last.text = ExampleContent
  /\ Len(last.ret) = 3
  /\ last.ret[3][1] = "N"

\* -------------------------------------------------- referential integrity
\* C27: every translation row and every segment row with a document
\* reference refers to a row of documents, a store_translation with an id
\* that was never registered included.
ReferentialIntegrity ==
  /\ \A i \in 1 .. Len(translations) :
       translations[i].document_id # NULL =>
         \E j \in 1 .. Len(documents) : documents[j].id = translations[i].document_id
  /\ \A i \in 1 .. Len(segments) :
       segments[i].document_id # NULL =>
         \E j \in 1 .. Len(documents) : documents[j].id = segments[i].document_id

\* ------------------------------------------------------- append-only store
\* C28: no step of any operation removes or changes a row of documents,
\* translations or segments: each table after the step starts with the table
\* before it; and a document row is added with status 'pending' and the
\* hashes of the file and content it was registered with, by store_document
\* or by the translate_document that is under way.
AppendOnlyStore ==
  [][/\ Len(documents') >= Len(documents)
     /\ Len(translations') >= Len(translations)
     /\ Len(segments') >= Len(segments)
     /\ \A k \in 1 .. Len(documents) : documents'[k] = documents[k]
     /\ \A k \in 1 .. Len(translations) : translations'[k] = translations[k]
     /\ \A k \in 1 .. Len(segments) : segments'[k] = segments[k]
     /\ \A k \in Len(documents) + 1 .. Len(documents') :
          /\ documents'[k].status = "pending"
          /\ \/ /\ pc' = "idle" /\ last'.op = "store_document"
                /\ documents'[k].file_hash = Md5(last'.bytes)
                /\ documents'[k].content_hash = Md5(last'.text)
             \/ /\ pc' # "idle"
                /\ documents'[k].file_hash = Md5(td'.bytes)
                /\ documents'[k].content_hash = Md5(td'.content)]_vars

\* A store that has seen every kind of repetition: a document registered
\* again, a second translation of it, and a text stored a second time.
AppendOnlyStoreWitness ==
  /\ last.op = "store_document" /\ last.existed /\ ~last.raised
  /\ Len(translations) >= 2
  /\ \E i \in 1 .. Len(segments), j \in 1 .. Len(segments) :
       i < j /\ segments[i].hash = segments[j].hash /\ segments[j].usage_count = 2

\* ------------------------------------------------- reuse within one run
\* C29: in one translate_document call, when a segment text comes at two
\* positions i < j and was freshly translated at i, then at j it is served
\* from the store with the same translation, and the external capability
\* was invoked for that text once in the run.
ReuseWithinOneRun ==
  LET log == IF pc = "loop" THEN td.log
             ELSE IF last.op = "translate_document" THEN last.log ELSE <<>>
  IN  \A i \in 1 .. Len(log), j \in 1 .. Len(log) :
        i < j /\ log[i].segment = log[j].segment /\ log[i].kind = "fresh" =>
          /\ log[j].kind = "reused"
          /\ log[j].ret = log[i].ret
          /\ Cardinality({k \in 1 .. Len(log) :
                            log[k].segment = log[i].segment /\ log[k].ext > 0}) = 1

\* ------------------------------------------- fresh translation persisted
\* C30: a translate(text, lang_pair) call that found no match above the
\* cutoff, whose model call succeeded and whose write was accepted, has
\* added exactly one segment row, with the input as source, the returned
\* cleaned text as translation and no document, and exactly one translation
\* row with no document; the text returned is the text stored.
FreshTranslationPersisted ==
  (/\ last.op = "translate"
   /\ last.log[1].looked
   /\ ~RatioGT(last.log[1].similarity, 95, 100)
   /\ last.log[1].ext = 1 /\ ~last.log[1].extFailed
   /\ last.log[1].kind # "store_failed")
  => /\ ~last.raised
     /\ last.ret = CleanTranslation(ModelDecode(last.text, last.lang_pair))
     /\ Len(segments) = last.nSegments + 1
     /\ Len(translations) = last.nTranslations + 1
     /\ segments[Len(segments)].source_text = last.text
     /\ segments[Len(segments)].translated_text = last.ret
     /\ segments[Len(segments)].lang_pair = last.lang_pair
     /\ segments[Len(segments)].document_id = NULL
     /\ translations[Len(translations)].translated_content = last.ret
     /\ translations[Len(translations)].lang_pair = last.lang_pair
     /\ translations[Len(translations)].document_id = NULL

\* translate() of a text whose best stored match is exactly at the cutoff:
\* it was translated afresh and stored beside the match.
FreshTranslationPersistedWitness ==
  /\ last.op = "translate"
  /\ last.log[1].kind = "fresh"
  /\ RatioGE(last.log[1].similarity, 95, 100)
  /\ ~RatioGT(last.log[1].similarity, 95, 100)
  /\ Len(segments) = last.nSegments + 1
  /\ last.nSegments >= 1
  /\ segments[Len(segments)].translated_text = last.ret

\* --------------------------------- rows written by a document translation
\* C31: a successful translate_document of translation_manager on a document
\* of N distinct segments, none seen by the store before and each translated
\* afresh, has added 2N segment rows, N without a document by translate()
\* and N with the document id by the final store_translation, and N + 1
\* translation rows, N of them without a document; the N segment rows of the
\* second writing, and only they, have a usage_count of 2 or more.
RowsPerDocumentTranslation ==
  (/\ pc = "idle"
   /\ last.op = "translate_document" /\ last.impl = "tm" /\ ~last.raised
   /\ \A i \in 1 .. Len(last.log) : last.log[i].kind = "fresh"
   /\ \A i \in 1 .. Len(last.log), j \in 1 .. Len(last.log) :
        i # j => last.log[i].segment # last.log[j].segment
   /\ \A i \in 1 .. Len(last.log), k \in 1 .. last.nSegments :
        segments[k].hash # Md5(last.log[i].segment))
  => LET N        == Len(last.log)
         newSegs  == last.nSegments + 1 .. Len(segments)
         newTrans == last.nTranslations + 1 .. Len(translations)
     IN  /\ Len(segments) = last.nSegments + 2 * N
         /\ Len(translations) = last.nTranslations + N + 1
         /\ Cardinality({k \in newSegs : segments[k].document_id = NULL}) = N
         /\ Cardinality({k \in newSegs :
                           segments[k].document_id = last.document_id}) = N
         /\ Cardinality({k \in newTrans : translations[k].document_id = NULL}) = N
         /\ translations[Len(translations)].document_id = last.document_id
         /\ Cardinality({k \in newSegs : segments[k].usage_count >= 2}) = N
         /\ \A k \in newSegs :
              segments[k].usage_count >= 2 <=> segments[k].document_id # NULL

\* A two-sentence document translated by translation_manager on a store that
\* had seen neither sentence: four segment rows and three translation rows.
RowsPerDocumentTranslationWitness ==
  /\ pc = "idle"
  /\ last.op = "translate_document" /\ last.impl = "tm" /\ ~last.raised
  /\ Len(last.log) = 2
  /\ last.log[1].kind = "fresh" /\ last.log[2].kind = "fresh"
  /\ last.nSegments = 0
  /\ Len(segments) = 4 /\ Len(translations) = 3
  /\ segments[4].usage_count = 2

\* ------------------------------------------ failures and the stored pairs
\* C32: the translation of every segment row is the cleaned output of the
\* model for the row's source text, as one of the managers cleans it, or a
\* copy of a translation stored in an earlier row; no row has its own source
\* text for translation.
MemoryNeverPoisoned ==
  \A k \in 1 .. Len(segments) :
    /\ \/ segments[k].translated_text =
            CleanTranslation(ModelDecode(segments[k].source_text, segments[k].lang_pair))
       \/ segments[k].translated_text =
            Strip(GuiCleanTranslation(ModelDecode(Strip(segments[k].source_text),
                                                  segments[k].lang_pair)))
       \/ \E j \in 1 .. k - 1 :
            segments[j].translated_text = segments[k].translated_text
    /\ segments[k].translated_text # segments[k].source_text

\* ---------------------------------------- versions of ad-hoc translations
\* C33: every translation row without a document has version 1, however
\* many such rows were stored before it.
AdhocNotVersioned ==
  \A k \in 1 .. Len(translations) :
    translations[k].document_id = NULL => translations[k].version = 1

\* Two translations without a document, both of version 1, next to a
\* document's translation.
AdhocNotVersionedWitness ==
  \E i \in 1 .. Len(translations), j \in 1 .. Len(translations),
     k \in 1 .. Len(translations) :
    /\ i < j
    /\ translations[i].document_id = NULL /\ translations[i].version = 1
    /\ translations[j].document_id = NULL /\ translations[j].version = 1
    /\ translations[k].document_id # NULL

\* ------------------------------------------------ concurrent registration
\* C34: however the lookups and inserts of store_document calls on two
\* connections interleave, documents holds no two rows for one content, so
\* at most one of the calls for a content has returned alreadyExisted =
\* False.
ConcurrentRegistrationUnique ==
  \A i \in 1 .. Len(documents), j \in 1 .. Len(documents) :
    i # j => /\ documents[i].content_hash # documents[j].content_hash
             /\ documents[i].file_hash # documents[j].file_hash

\* --------------------------------------- store failure in ad-hoc translate
\* C35: a translate(text, lang_pair) call whose model call succeeded and
\* whose store_translation raised has not raised, has returned the input
\* text and not the translation obtained, and has left the tables as they
\* were.
StoreFailureSwallowed ==
  (/\ last.op = "translate"
   /\ last.log[1].kind = "store_failed")
  => /\ last.log[1].ext = 1 /\ ~last.log[1].extFailed
     /\ ~last.raised
     /\ last.ret = last.text
     /\ last.ret # CleanTranslation(ModelDecode(last.text, last.lang_pair))
     /\ ~last.log[1].wrote
     /\ Len(translations) = last.nTranslations
     /\ Len(segments) = last.nSegments
     /\ Len(documents) = last.nDocuments

\* translate() of a text the store has a close match for, below the cutoff:
\* the model translated it, the store refused the write.
StoreFailureSwallowedWitness ==
  /\ last.op = "translate"
  /\ last.log[1].kind = "store_failed"
  /\ last.text = Long21H
  /\ last.ret = Long21H
  /\ last.nSegments >= 1
  /\ Len(segments) = last.nSegments

\* ------------------------------------------------------------- history
\* C36: get_translation_history, when its query runs, returns one entry for
\* every translation row whose document_id is the id of a documents row and
\* none for any other row, the entries by date descending; so it has at most
\* get_statistics().total_translations entries, and fewer when a translation
\* without a document is stored.
HistoryOfDocumentTranslations ==
  (/\ pc = "idle"
   /\ last.op = "get_translation_history" /\ ~last.fault /\ ~last.raised)
  => LET joined == {k \in 1 .. Len(translations) :
                      \E d \in 1 .. Len(documents) :
                        documents[d].id = translations[k].document_id}
         total  == GetStatisticsResult(FALSE).ret.total_translations
     IN  /\ Len(last.ret) = Cardinality(joined)
         /\ \A k \in joined :
              Cardinality({p \in 1 .. Len(last.ret) : last.ret[p] = HistoryEntry(k)})
                = Cardinality({j \in joined : HistoryEntry(j) = HistoryEntry(k)})
         /\ \A p \in 1 .. Len(last.ret) : last.ret[p].file_name # ""
         /\ \A p \in 1 .. Len(last.ret) - 1 : last.ret[p].date >= last.ret[p + 1].date
         /\ Len(last.ret) <= total
         /\ (\E k \in 1 .. Len(translations) : translations[k].document_id = NULL)
              => Len(last.ret) < total

\* A history of two entries of different dates, the later one first, read
\* from a store that also has a translation without a document.
HistoryOfDocumentTranslationsWitness ==
  /\ pc = "idle"
  /\ last.op = "get_translation_history" /\ ~last.fault /\ ~last.raised
  /\ Len(last.ret) = 2
  /\ last.ret[1].date > last.ret[2].date
  /\ Len(translations) = 3

\* --------------------------------------------------- registration failure
\* C37: a store_document, or a translate_document of either manager, for a
\* path whose file cannot be read has raised, has inserted no document row,
\* and has translated and stored nothing: no segment was looked up or
\* translated, no progress reported, no row written.
RegistrationFailureLeavesStore ==
  (/\ pc = "idle"
   /\ last.op \in {"store_document", "translate_document"}
   /\ last.bytes = NoFile)
  => /\ last.raised
     /\ last.id = NULL /\ ~last.existed
     /\ last.log = <<>> /\ last.progress = <<>> /\ last.ret = <<>>
     /\ Len(documents) = last.nDocuments
     /\ Len(translations) = last.nTranslations
     /\ Len(segments) = last.nSegments
     /\ \A d \in 1 .. Len(documents) : documents[d].file_hash # Md5(NoFile)

\* translate_document for an unreadable path, asked of a store that holds
\* the same content under a readable path.
RegistrationFailureLeavesStoreWitness ==
  /\ pc = "idle"
  /\ last.op = "translate_document" /\ last.impl = "tm"
  /\ last.bytes = NoFile /\ last.raised
  /\ \E d \in 1 .. Len(documents) : documents[d].content_hash = Md5(last.text)
  /\ Len(segments) >= 1
\* ------------------------------------------------- authorization codes
\* The codes of a list.
CodesOf(codes) == {codes[i] : i \in 1 .. Len(codes)}

\* C38: a call of install_on_new_machine returns True exactly when its code
\* is in the list of valid codes (and the lock file could be written); it
\* then has written the lock file and taken the code out of the list, which
\* no call ever extends, so that a later call with that code returns False;
\* a call that does not return True (invalid code, or lock_to_machine
\* raised) changes neither the lock file nor the list.
CodesSingleUse ==
  [][LET code == last'.code
     IN /\ last'.op = "install_on_new_machine"
        /\ last'.ok => /\ code \in CodesOf(valid_auth_codes)
                       /\ ~last'.raised
                       /\ last'.files = <<"lock_file">>
                       /\ lock_file' # <<>>
                       /\ code \notin CodesOf(valid_auth_codes')
                       /\ CodesOf(valid_auth_codes') = CodesOf(valid_auth_codes) \ {code}
                       /\ Len(valid_auth_codes') = Len(valid_auth_codes) - 1
        /\ (~last'.ok /\ ~last'.raised) => code \notin CodesOf(valid_auth_codes)
        /\ ~last'.ok => /\ last'.files = <<>>
                        /\ UNCHANGED <<lock_file, valid_auth_codes>>]_vars

\* A code that was valid at construction is offered again after it was
\* used, and is refused.
CodesSingleUseWitness ==
  /\ last.op = "install_on_new_machine"
  /\ last.code = "INSTALL-123456"
  /\ ~last.ok
  /\ ~last.raised
  /\ lock_file # <<>>
  /\ "INSTALL-123456" \notin CodesOf(valid_auth_codes)
  /\ Len(valid_auth_codes) < Len(ValidAuthCodes)
\* ------------------------------------------------------- licence gating
\* The stored entry of a user.
Stored(creds, username) == UserData(creds, username)[1]

\* What the claim says of a check_credentials call: success exactly for a
\* stored user, the stored password and an expiration later than now, and
\* otherwise (False, 0, 'invalid'); the credentials stay as they are.
CheckGated ==
  (last'.op = "check_credentials" /\ clock' = clock) =>
    /\ credentials' = credentials
    /\ last'.ok <=> /\ UserData(credentials, last'.username) # <<>>
                    /\ Stored(credentials, last'.username).password = last'.password
                    /\ Stored(credentials, last'.username).expiration > clock
    /\ ~last'.ok => last'.ret = <<FALSE, 0, "invalid">>
    /\ last'.ok => last'.ret[1] = TRUE

\* What the claim says of extend_license apart from the login that follows:
\* the expiration of a stored user becomes max(expiration, now) + days, not
\* earlier than before for days >= 0, and an unknown user changes nothing;
\* nor does a call whose save_credentials failed, which returns False.
ExtensionSets ==
  (last'.op = "extend_license" /\ clock' = clock) =>
    LET username == last'.username
    IN IF UserData(credentials, username) # <<>> /\ last'.ok
       THEN LET before == Stored(credentials, username).expiration
                after == Stored(credentials', username).expiration
            IN /\ after = (IF before > clock THEN before ELSE clock) + last'.days
               /\ last'.days >= 0 => after >= before
               /\ \A i \in 1 .. Len(credentials) :
                    credentials[i].username # username => credentials'[i] = credentials[i]
       ELSE /\ ~last'.ok
            /\ credentials' = credentials

\* The login with the stored password right after an extension of at least
\* minDays days.
LoginAfterExtension(minDays) ==
  (/\ last'.op = "extend_license"
   /\ clock' = clock
   /\ last'.ok
   /\ last'.days >= minDays) =>
    CheckCredentialsResult(credentials', last'.username,
                           Stored(credentials', last'.username).password, clock')[1]

\* C39, as the code has it: check_credentials succeeds exactly for a stored
\* user with the stored password and an expiration later than now, else
\* returns (False, 0, 'invalid'), and changes nothing; extend_license that
\* returns True has set the expiration of the stored user to
\* max(expiration, now) + days, not earlier for days >= 0, and the login
\* right after it succeeds when days >= 1; extend_license returns False and
\* changes nothing for an unknown user and when the credentials could not
\* be saved.
LicenceGating ==
  [][CheckGated /\ ExtensionSets /\ LoginAfterExtension(1)]_vars

\* C39 as stated: the login right after an extension by days >= 0 succeeds.
LicenceGatingAsStated ==
  [][CheckGated /\ ExtensionSets /\ LoginAfterExtension(0)]_vars

\* An expired licence has been extended by a day, in a store that held the
\* expiration of construction before the licence ran out.
LicenceGatingWitness ==
  /\ last.op = "extend_license"
  /\ last.username = "admin"
  /\ last.ok
  /\ last.days = 1
  /\ clock >= LicenseDays
  /\ Stored(credentials, "admin").expiration = clock + 1
  /\ CheckCredentialsResult(credentials, "admin", "password123", clock)[1]
\* ------------------------------------------------------- the model cache
\* C40: load_model loads the tokenizer and the model of a pair only when the
\* cache does not hold them yet (so at most once until a cleanup), nothing
\* for a cached pair, and leaves both caches as they are for an unsupported
\* pair; after a load_model call that returned, both caches have the same
\* keys; cleanup empties both.
LazyModelCache ==
  [][/\ last'.op = "load_model" =>
          /\ last'.lang_pair \in models => (last'.loaded = <<>> /\ UNCHANGED caches)
          /\ last'.lang_pair \notin SupportedPairs => UNCHANGED caches
          /\ \A i \in 1 .. Len(last'.loaded) :
               /\ last'.loaded[i] = "tokenizer" => last'.lang_pair \notin tokenizers
               /\ last'.loaded[i] = "model" => last'.lang_pair \notin models
          /\ ~last'.raised => models' = tokenizers'
     /\ last'.op = "cleanup" => (models' = {} /\ tokenizers' = {})]_vars
====
